---- MODULE Spec2Model ----
(***************************************************************************)
(* Model of the PhotoAnalyzer component                                    *)
(* (src/src/components/analysis/photo-analyzer.tsx): the batch loop        *)
(* startAnalysis, the pixel analyzers it calls, the expression scorer and  *)
(* the score fusion.                                                       *)
(*                                                                         *)
(* Numbers.  JavaScript numbers are modelled as integers in units of       *)
(* 1/One (One = 10^7).  The primitive scores (blur, noise, exposure,       *)
(* harmony, thirds, balance, contrast) are rounded down to a multiple of   *)
(* 1/1000; with that, every weighted blend downstream (x*0.4, x*0.6, /10,  *)
(* *9+1, ...) is an exact integer.  NaN is a distinguished value: every    *)
(* arithmetic operation propagates it and every comparison with it is      *)
(* false, as in IEEE-754.  +Infinity only arises in                        *)
(* calculateRuleOfThirdsScore, where Math.min(1, Infinity) = 1.            *)
(*                                                                         *)
(* Rasters.  An ImageData is [w, h, px]: px is the sequence of <<r,g,b>>   *)
(* triples in row-major order (px[i+1] is the pixel with index i); alpha   *)
(* is never read by the code.                                              *)
(*                                                                         *)
(* Not modelled: generateScoreDistribution (the 10-bucket Gaussian stored  *)
(* next to meanScore), which no analyzer or ranking step reads.            *)
(***************************************************************************)
EXTENDS Integers, Sequences, FiniteSets, TLC

One == 10 * 1000 * 1000
Milli == One \div 1000
NaN == 0 - 100 * One

IsNaN(x) == x = NaN

Min2(a, b) == IF a <= b THEN a ELSE b
Max2(a, b) == IF a >= b THEN a ELSE b
Abs(a) == IF a < 0 THEN 0 - a ELSE a

\* x * (num/den) on a JavaScript number: NaN * c = NaN.
Times(x, num, den) == IF IsNaN(x) THEN NaN ELSE (x * num) \div den

\* x + y on JavaScript numbers: NaN + y = x + NaN = NaN.
Plus(x, y) == IF IsNaN(x) \/ IsNaN(y) THEN NaN ELSE x + y

\* x >= y on JavaScript numbers: false as soon as one side is NaN.
Geq(x, y) == ~IsNaN(x) /\ ~IsNaN(y) /\ x >= y

\* n/d (n >= 0, d > 0) as a number of the model, rounded down to 1/1000.
Ratio(n, d) == ((1000 * n) \div d) * Milli

\* Math.min(1, Math.max(0, x)); Math.max and Math.min return NaN for NaN.
Clamp01(x) == IF IsNaN(x) THEN NaN ELSE Min2(One, Max2(0, x))

RECURSIVE SumFn(_, _, _)
\* Sum of f[lo] .. f[hi] (0 when lo > hi).
SumFn(f, lo, hi) ==
  IF lo > hi THEN 0
  ELSE IF lo = hi THEN f[lo]
       ELSE LET mid == (lo + hi) \div 2 IN SumFn(f, lo, mid) + SumFn(f, mid + 1, hi)

RECURSIVE ISqrtIn(_, _, _)
ISqrtIn(n, lo, hi) ==
  IF lo >= hi THEN lo
  ELSE LET mid == (lo + hi + 1) \div 2
       IN IF mid * mid <= n THEN ISqrtIn(n, mid, hi) ELSE ISqrtIn(n, lo, mid - 1)

\* floor(Math.sqrt(n)) for 0 <= n < 2^31.
ISqrt(n) == ISqrtIn(n, 0, Min2(n, 46340))

\* ------------------------------------------------------------------------
\* Rasters

\* Math.round(0.299 * r + 0.587 * g + 0.114 * b)
Luma(p) == (299 * p[1] + 587 * p[2] + 114 * p[3] + 500) \div 1000

PixelCount(im) == im.w * im.h

\* The grayscale buffer, indexed 0 .. w*h-1 as the Uint8Array is.
Gray(im) == [i \in 0 .. PixelCount(im) - 1 |-> Luma(im.px[i + 1])]

\* The pixels that are not on the 1-pixel border.
Interior(im) ==
  {i \in 0 .. PixelCount(im) - 1 :
     ~((i % im.w) = 0 \/ (i % im.w) = im.w - 1 \/ i < im.w \/ i >= (im.h - 1) * im.w)}

SolidRaster(w, h, p) == [w |-> w, h |-> h, px |-> [i \in 1 .. w * h |-> p]]

\* A raster whose pixel (x, y) has gray level lum[x, y].
GrayRaster(w, h, lum(_, _)) ==
  [w |-> w, h |-> h,
   px |-> [i \in 1 .. w * h |->
             LET v == lum(((i - 1) % w), ((i - 1) \div w)) IN <<v, v, v>>]]

\* ------------------------------------------------------------------------
\* Technical quality (blur, noise, exposure)

\* The 3x3 Laplacian response at interior index idx.
Laplacian(im, idx) ==
  LET gray == Gray(im)
      width == im.w
  IN 8 * gray[idx]
     - gray[idx - width - 1] - gray[idx - width] - gray[idx - width + 1]
     - gray[idx - 1] - gray[idx + 1]
     - gray[idx + width - 1] - gray[idx + width] - gray[idx + width + 1]

\* The divisor of mean and variance in detectBlur: the number of pixels the
\* summing loop does not skip.
BlurCount(im) == Cardinality(Interior(im))

\* variance = sumSquared/count - mean*mean is computed on the values shifted by
\* c = floor(mean), which leaves a variance unchanged and keeps the sums small:
\* variance = (sumSq(lap - c) * count - rest^2) / count^2, rest = sum - c * count.
detectBlur(im) ==
  LET n == PixelCount(im)
      inner == Interior(im)
      lap == [i \in 0 .. n - 1 |-> IF i \in inner THEN Laplacian(im, i) ELSE 0]
      sum == SumFn(lap, 0, n - 1)
      count == BlurCount(im)
      c == sum \div count
      rest == sum - c * count
      sumSquared == SumFn([i \in 0 .. n - 1 |->
                             IF i \in inner THEN (lap[i] - c) * (lap[i] - c) ELSE 0],
                          0, n - 1)
  IN IF count = 0
       THEN NaN        \* 0/0: mean, variance and the clamped score are NaN
       ELSE IF sumSquared \div count >= 1001 THEN One      \* variance >= 1000
            ELSE Clamp01(((sumSquared * count - rest * rest) \div (count * count)) * Milli)

\* calculateBlockVariance for the block with origin (x, y): the 64 gray values,
\* whether colorVariance < 100, and diffSum (noiseLevel = diffSum / diffCount).
BlockValues(im, x, y, blockSize) ==
  [k \in 0 .. blockSize * blockSize - 1 |->
     Luma(im.px[(y + (k \div blockSize)) * im.w + (x + (k % blockSize)) + 1])]

calculateBlockVariance(im, x, y, blockSize) ==
  LET pixelValues == BlockValues(im, x, y, blockSize)
      len == blockSize * blockSize
      s1 == SumFn(pixelValues, 0, len - 1)
      s2 == SumFn([k \in 0 .. len - 1 |-> pixelValues[k] * pixelValues[k]], 0, len - 1)
      horiz == [k \in 0 .. len - 1 |->
                  IF (k % blockSize) < blockSize - 1
                    THEN Abs(pixelValues[k] - pixelValues[k + 1]) ELSE 0]
      vert == [k \in 0 .. len - 1 |->
                 IF (k \div blockSize) < blockSize - 1
                   THEN Abs(pixelValues[k] - pixelValues[k + blockSize]) ELSE 0]
  IN [ \* colorVariance = (len*s2 - s1^2) / len^2
       varNum |-> len * s2 - s1 * s1,
       varDen |-> len * len,
       diffSum |-> SumFn(horiz, 0, len - 1) + SumFn(vert, 0, len - 1),
       diffCount |-> 2 * blockSize * (blockSize - 1) ]

\* The block origins the loops of detectNoise visit along an axis of length n:
\* for (v = 0; v < n - blockSize; v += blockSize).
NoiseOrigins(n, blockSize) == {v \in 0 .. Max2(n, 0) : (v % blockSize) = 0 /\ v < n - blockSize}

\* A faulty variant of detectNoise that lets every block contribute, uniform
\* or not.
detectNoiseUngated(im) ==
  LET blockSize == 8
      origins == NoiseOrigins(im.w, blockSize) \X NoiseOrigins(im.h, blockSize)
      bv == [o \in origins |-> calculateBlockVariance(im, o[1], o[2], blockSize)]
      RECURSIVE Total(_)
      Total(S) == IF S = {} THEN 0
                  ELSE LET o == CHOOSE o \in S : TRUE IN bv[o].diffSum + Total(S \ {o})
      totalDiff == Total(origins)
      den == 2 * blockSize * (blockSize - 1) * Cardinality(origins) * 20
  IN IF origins = {} THEN One \div 2
     ELSE IF totalDiff >= den THEN 0
          ELSE Clamp01(One - Ratio(totalDiff, den))

detectNoise(im) ==
  LET blockSize == 8
      origins == NoiseOrigins(im.w, blockSize) \X NoiseOrigins(im.h, blockSize)
      bv == [o \in origins |-> calculateBlockVariance(im, o[1], o[2], blockSize)]
      uniform == {o \in origins : bv[o].varNum < 100 * bv[o].varDen}
      uniformBlocks == Cardinality(uniform)
      RECURSIVE Total(_)
      Total(S) == IF S = {} THEN 0
                  ELSE LET o == CHOOSE o \in S : TRUE IN bv[o].diffSum + Total(S \ {o})
      totalDiff == Total(uniform)
      diffCount == 2 * blockSize * (blockSize - 1)
      \* averageNoise / 20 = totalDiff / (diffCount * uniformBlocks * 20)
      den == diffCount * uniformBlocks * 20
  IN IF uniformBlocks = 0 THEN One \div 2
     ELSE IF totalDiff >= den THEN 0
          ELSE Clamp01(One - Ratio(totalDiff, den))

\* The luma histogram: how many pixels have gray level v.
Histogram(im) ==
  LET gray == Gray(im)
  IN [v \in 0 .. 255 |-> Cardinality({i \in DOMAIN gray : gray[i] = v})]

analyzeExposure(im) ==
  LET gray == Gray(im)
      pixelCount == PixelCount(im)
      s1 == SumFn(gray, 0, pixelCount - 1)
      \* mean = s1/pixelCount; stdDev^2 = sum((gray - mean)^2)/pixelCount, computed
      \* on the values shifted by c = floor(mean) as in detectBlur
      c == s1 \div pixelCount
      rest == s1 - c * pixelCount
      s2 == SumFn([i \in 0 .. pixelCount - 1 |-> (gray[i] - c) * (gray[i] - c)],
                  0, pixelCount - 1)
      varNum == pixelCount * s2 - rest * rest      \* stdDev^2 * pixelCount^2
      dark == Cardinality({i \in DOMAIN gray : gray[i] < 50})
      bright == Cardinality({i \in DOMAIN gray : gray[i] >= 200})
      meanScore == One - Ratio(Abs(s1 - 128 * pixelCount), 128 * pixelCount)
      \* stdDev / 60 = sqrt(varNum) / (60 * pixelCount)
      stdDevScore ==
        IF s2 \div pixelCount >= 3601 THEN One          \* stdDev >= 60
        ELSE Min2(((ISqrt(100 * varNum) * 100) \div (60 * pixelCount)) * Milli, One)
      darkPixelRatio == Ratio(dark, pixelCount)
      brightPixelRatio == Ratio(bright, pixelCount)
      extremePixelPenalty == Max2(0, darkPixelRatio - One \div 10)
                             + Max2(0, brightPixelRatio - One \div 10)
  IN Max2(0, (meanScore * 5) \div 10 + (stdDevScore * 5) \div 10 - extremePixelPenalty)

\* The blend of analyzeTechnicalQuality.
TechnicalBlend(blurScore, noiseScore, exposureScore) ==
  Plus(Plus(Times(blurScore, 4, 10), Times(noiseScore, 3, 10)), Times(exposureScore, 3, 10))

analyzeTechnicalQuality(im) ==
  LET blurScore == detectBlur(im)
      noiseScore == detectNoise(im)
      exposureScore == analyzeExposure(im)
  IN [blurScore |-> blurScore,
      noiseScore |-> noiseScore,
      exposureScore |-> exposureScore,
      overallScore |-> TechnicalBlend(blurScore, noiseScore, exposureScore)]

\* ------------------------------------------------------------------------
\* Aesthetics (colour harmony, composition, contrast)

\* Hues are in thousandths of a degree (0 .. 360000), rounded down;
\* saturation and value are numbers of the model.
rgbToHsv(r, g, b) ==
  LET max == Max2(r, Max2(g, b))
      min == Min2(r, Min2(g, b))
      diff == max - min
      \* (g - b) / diff lies in [-1, 1], so "% 6" leaves it unchanged
      h0 == IF diff = 0 THEN 0
            ELSE IF max = r THEN (60000 * (g - b)) \div diff
            ELSE IF max = g THEN (60000 * (b - r)) \div diff + 120000
            ELSE (60000 * (r - g)) \div diff + 240000
  IN [h |-> IF h0 < 0 THEN h0 + 360000 ELSE h0,
      s |-> IF max = 0 THEN 0 ELSE Ratio(diff, max),
      v |-> Ratio(max, 255)]

\* Math.floor(v / 16) * 16 on each channel: the key of the colour map.
Quantize(p) == <<(p[1] \div 16) * 16, (p[2] \div 16) * 16, (p[3] \div 16) * 16>>

\* The pixel indices the sampling loop visits: i = 0, sampleRate, 2*sampleRate, ...
SampledPixels(im) ==
  LET pixelCount == PixelCount(im)
      sampleRate == Max2(1, pixelCount \div 1000)
  IN {i \in 0 .. pixelCount - 1 : (i % sampleRate) = 0}

\* The colour map after the sampling loop, as a set of entries.  An entry keeps
\* the HSV of the pixel that created it (hsv is computed from the unquantized
\* r, g, b of that pixel); "first" is its insertion position in the Map.
ColorMap(im) ==
  LET sampled == SampledPixels(im)
      keys == {Quantize(im.px[i + 1]) : i \in sampled}
      Of(key) == {i \in sampled : Quantize(im.px[i + 1]) = key}
      First(key) == CHOOSE i \in Of(key) : \A j \in Of(key) : i <= j
  IN {LET p == im.px[First(key) + 1]
          hsv == rgbToHsv(p[1], p[2], p[3])
      IN [count |-> Cardinality(Of(key)), r |-> key[1], g |-> key[2], b |-> key[3],
          hue |-> hsv.h, sat |-> hsv.s, val |-> hsv.v, first |-> First(key)]
      : key \in keys}

\* A faulty variant of extractDominantColors that leaves out the sort: the
\* first maxColors entries in insertion order.
extractDominantColorsUnsorted(im, maxColors) ==
  LET entries == ColorMap(im)
      Rank(e) == Cardinality({o \in entries : o.first < e.first})
  IN [k \in 1 .. Min2(maxColors, Cardinality(entries)) |->
        CHOOSE e \in entries : Rank(e) = k - 1]

\* Array.from(colorMap.values()).sort((a, b) => b.count - a.count).slice(0, maxColors):
\* a stable sort of the entries in insertion order by descending count.
extractDominantColors(im, maxColors) ==
  LET entries == ColorMap(im)
      Before(a, b) == a.count > b.count \/ (a.count = b.count /\ a.first < b.first)
      Rank(e) == Cardinality({o \in entries : Before(o, e)})
  IN [k \in 1 .. Min2(maxColors, Cardinality(entries)) |->
        CHOOSE e \in entries : Rank(e) = k - 1]

\* A faulty variant of the classification below that takes the plain hue
\* difference, not the shorter way round the hue circle.
HueClassLinear(h1, h2) ==
  LET hueDiff == Abs(h1 - h2)
  IN IF hueDiff > 165000 /\ hueDiff < 195000 THEN "c"
     ELSE IF hueDiff < 30000 THEN "a"
     ELSE IF hueDiff > 105000 /\ hueDiff < 135000 THEN "t"
     ELSE "-"

\* The class of one pair of hues: "c" complementary, "a" analogous, "t" triadic.
HueClass(h1, h2) ==
  LET hueDiff == Abs(h1 - h2)
      normalizedHueDiff == Min2(hueDiff, 360000 - hueDiff)
  IN IF normalizedHueDiff > 165000 /\ normalizedHueDiff < 195000 THEN "c"
     ELSE IF normalizedHueDiff < 30000 THEN "a"
     ELSE IF normalizedHueDiff > 105000 /\ normalizedHueDiff < 135000 THEN "t"
     ELSE "-"

\* A faulty variant of the score below: a neutral 0.5 for fewer than two colours.
HarmonyOfNeutral(colors) ==
  LET n == Len(colors)
      pairs == {q \in (1 .. n) \X (1 .. n) : q[1] < q[2]}
      Count(cls) == Cardinality({q \in pairs : HueClass(colors[q[1]].hue, colors[q[2]].hue) = cls})
  IN IF n >= 2
       THEN Min2(One, ((300 * Count("c") + 200 * Count("a") + 200 * Count("t")) \div n) * Milli)
       ELSE One \div 2

\* The harmony score of a list of colours.
HarmonyOf(colors) ==
  LET n == Len(colors)
      pairs == {q \in (1 .. n) \X (1 .. n) : q[1] < q[2]}
      Count(cls) == Cardinality({q \in pairs : HueClass(colors[q[1]].hue, colors[q[2]].hue) = cls})
  IN IF n >= 2
       THEN Min2(One, ((300 * Count("c") + 200 * Count("a") + 200 * Count("t")) \div n) * Milli)
       ELSE 0

analyzeColorHarmony(im) == HarmonyOf(extractDominantColors(im, 5))

\* The edge map, as the set of indices whose entry is 255.
\* g = sqrt(gx*gx + gy*gy) > 30 iff gx*gx + gy*gy > 900.
findEdges(im) ==
  LET gray == Gray(im)
      width == im.w
  IN {idx \in Interior(im) :
        LET gx == Abs(gray[idx - 1] - gray[idx + 1])
            gy == Abs(gray[idx - width] - gray[idx + width])
        IN gx * gx + gy * gy > 900}

calculateRuleOfThirdsScore(edges, width, height, thirdX1, thirdX2, thirdY1, thirdY2) ==
  LET regionSize == Min2(width, height) \div 10
      regions == {<<thirdX1, thirdY1>>, <<thirdX2, thirdY1>>,
                  <<thirdX1, thirdY2>>, <<thirdX2, thirdY2>>}
      Near(idx) == \E region \in regions :
                      /\ Abs((idx % width) - region[1]) <= regionSize
                      /\ Abs((idx \div width) - region[2]) <= regionSize
      totalEdgePixels == Cardinality(edges)
      intersectionEdgePixels == Cardinality({idx \in edges : Near(idx)})
      \* actualRatio / (expectedRatio * 2)
      \*   = (intersectionEdgePixels * width * height) / (totalEdgePixels * 8 * regionSize^2)
      num == intersectionEdgePixels * width * height
      den == totalEdgePixels * 8 * regionSize * regionSize
  IN IF totalEdgePixels = 0 THEN One \div 2
     ELSE IF den = 0
       THEN IF num = 0 THEN NaN     \* 0 / 0
            ELSE One                \* Math.min(1, Infinity)
       ELSE IF num >= den THEN One ELSE Ratio(num, den)

\* Math.min(a, b) / Math.max(a, b) on two counts: 0/0 is NaN.
BalanceRatio(a, b) == IF Max2(a, b) = 0 THEN NaN ELSE Ratio(Min2(a, b), Max2(a, b))

calculateVisualBalance(edges, width, height) ==
  LET centerX == width \div 2
      centerY == height \div 2
      leftWeight == Cardinality({idx \in edges : (idx % width) < centerX})
      rightWeight == Cardinality({idx \in edges : (idx % width) >= centerX})
      topWeight == Cardinality({idx \in edges : (idx \div width) < centerY})
      bottomWeight == Cardinality({idx \in edges : (idx \div width) >= centerY})
      horizontalBalance == BalanceRatio(leftWeight, rightWeight)
      verticalBalance == BalanceRatio(topWeight, bottomWeight)
  IN Plus(Times(horizontalBalance, 5, 10), Times(verticalBalance, 5, 10))

analyzeComposition(im) ==
  LET width == im.w
      height == im.h
      thirdX1 == width \div 3
      thirdX2 == (width * 2) \div 3
      thirdY1 == height \div 3
      thirdY2 == (height * 2) \div 3
      edges == findEdges(im)
      ruleOfThirdsScore ==
        calculateRuleOfThirdsScore(edges, width, height, thirdX1, thirdX2, thirdY1, thirdY2)
      balanceScore == calculateVisualBalance(edges, width, height)
  IN Plus(Times(ruleOfThirdsScore, 6, 10), Times(balanceScore, 4, 10))

\* The two percentile scans of analyzeContrast over the luma histogram.
\* sum >= pixelCount * 0.05 iff 20 * sum >= pixelCount.
PercentileLow(im) ==
  LET gray == Gray(im)
      pixelCount == PixelCount(im)
      AtMost(v) == Cardinality({i \in DOMAIN gray : gray[i] <= v})
      hits == {v \in 0 .. 255 : 20 * AtMost(v) >= pixelCount}
  IN IF hits = {} THEN 0 ELSE CHOOSE v \in hits : \A u \in hits : v <= u

\* A faulty variant of the bright-end scan that stops only when all the
\* pixels are counted.
PercentileHighOfAll(im) ==
  LET gray == Gray(im)
      pixelCount == PixelCount(im)
      AtLeast(v) == Cardinality({i \in DOMAIN gray : gray[i] >= v})
      hits == {v \in 0 .. 255 : AtLeast(v) >= pixelCount}
  IN IF hits = {} THEN 255 ELSE CHOOSE v \in hits : \A u \in hits : v >= u

PercentileHigh(im) ==
  LET gray == Gray(im)
      pixelCount == PixelCount(im)
      AtLeast(v) == Cardinality({i \in DOMAIN gray : gray[i] >= v})
      hits == {v \in 0 .. 255 : 20 * AtLeast(v) >= pixelCount}
  IN IF hits = {} THEN 255 ELSE CHOOSE v \in hits : \A u \in hits : v >= u

analyzeContrast(im) ==
  LET p5 == PercentileLow(im)
      p95 == PercentileHigh(im)
      contrastRange == p95 - p5
  IN Min2(One, (contrastRange * 5) * Milli)

\* meanScore = (colorScore * 0.4 + compositionScore * 0.4 + contrastScore * 0.2) * 9 + 1
AestheticBlend(colorScore, compositionScore, contrastScore) ==
  Plus(Times(Plus(Plus(Times(colorScore, 4, 10), Times(compositionScore, 4, 10)),
                  Times(contrastScore, 2, 10)), 9, 1), One)

analyzeAesthetics(im) ==
  [meanScore |-> AestheticBlend(analyzeColorHarmony(im), analyzeComposition(im),
                                analyzeContrast(im))]

\* ------------------------------------------------------------------------
\* Expression scoring and score fusion

\* One face's expression vector, each component in tenths.
Expression(happy, sad, angry, fearful, disgusted, surprised, neutral) ==
  [happy |-> happy * (One \div 10), sad |-> sad * (One \div 10),
   angry |-> angry * (One \div 10), fearful |-> fearful * (One \div 10),
   disgusted |-> disgusted * (One \div 10), surprised |-> surprised * (One \div 10),
   neutral |-> neutral * (One \div 10)]

\* A faulty variant of the total below that leaves out the negative term.
ExpressionTotalNoPenalty(expression) ==
  expression.happy + (expression.neutral * 7) \div 10 + (expression.surprised * 5) \div 10

\* totalScore of one face in the loop of analyzeFaceExpressions.
ExpressionTotal(expression) ==
  LET happyScore == expression.happy
      neutralScore == (expression.neutral * 7) \div 10
      surprisedScore == (expression.surprised * 5) \div 10
      negativeScore == (expression.sad + expression.angry + expression.fearful
                        + expression.disgusted) \div 10
  IN happyScore + neutralScore + surprisedScore - negativeScore

RECURSIVE BestExpression(_, _)
\* The loop "bestExpressionScore = Math.max(bestExpressionScore, totalScore)",
\* started from best.
BestExpression(expressions, best) ==
  IF expressions = <<>> THEN best
  ELSE BestExpression(Tail(expressions), Max2(best, ExpressionTotal(Head(expressions))))

NoFaces == [faceCount |-> 0, expressions |-> <<>>, bestExpressionScore |-> 0]

\* A faulty variant of the catch block below: a neutral score instead of 0.
DetectionCaughtNeutral ==
  [faceCount |-> 0, expressions |-> <<>>, bestExpressionScore |-> One \div 2]

\* What the catch block of analyzeFaceExpressions returns.
DetectionCaught == NoFaces

\* detection is what awaiting the detector gives: [ok |-> FALSE] when it throws,
\* [ok |-> TRUE, faces |-> the expression vectors] when it resolves.
analyzeFaceExpressions(detection) ==
  IF ~detection.ok THEN DetectionCaught
  ELSE IF Len(detection.faces) = 0 THEN NoFaces
  ELSE [faceCount |-> Len(detection.faces),
        expressions |-> detection.faces,
        bestExpressionScore |-> Clamp01(BestExpression(detection.faces, 0))]

\* A faulty variant of calculateOverallScore that renormalizes the two weights
\* to 0.5 / 0.5 when there is no face.
calculateOverallScoreRenormalized(technicalQuality, aesthetics, faceExpressions) ==
  LET technicalScore == Times(technicalQuality.overallScore, 4, 10)
      aestheticScore == Times(Times(aesthetics.meanScore, 1, 10), 4, 10)
      faceScore == Times(faceExpressions.bestExpressionScore, 2, 10)
  IN IF faceExpressions.faceCount > 0
       THEN Plus(Plus(technicalScore, aestheticScore), faceScore)
       ELSE Plus(Times(technicalQuality.overallScore, 5, 10),
                 Times(Times(aesthetics.meanScore, 1, 10), 5, 10))

\* A faulty variant of calculateOverallScore that scores expressions around
\* the neutral 0.5, so that a poor expression costs points.
calculateOverallScoreCentred(technicalQuality, aesthetics, faceExpressions) ==
  LET technicalScore == Times(technicalQuality.overallScore, 4, 10)
      aestheticScore == Times(Times(aesthetics.meanScore, 1, 10), 4, 10)
      faceScore == IF faceExpressions.faceCount > 0
                     THEN Plus(Times(faceExpressions.bestExpressionScore, 2, 10),
                               0 - (One \div 10))
                     ELSE 0
  IN IF faceExpressions.faceCount > 0
       THEN Plus(Plus(technicalScore, aestheticScore), faceScore)
       ELSE Plus(Times(technicalScore, 5, 10), Times(aestheticScore, 5, 10))

calculateOverallScore(technicalQuality, aesthetics, faceExpressions) ==
  LET technicalScore == Times(technicalQuality.overallScore, 4, 10)
      aestheticScore == Times(Times(aesthetics.meanScore, 1, 10), 4, 10)
      faceScore == IF faceExpressions.faceCount > 0
                     THEN Times(faceExpressions.bestExpressionScore, 2, 10)
                     ELSE 0
  IN IF faceExpressions.faceCount > 0
       THEN Plus(Plus(technicalScore, aestheticScore), faceScore)
       ELSE Plus(Times(technicalScore, 5, 10), Times(aestheticScore, 5, 10))

\* ------------------------------------------------------------------------
\* Inputs of the batch model

\* The longest photo list submitted.
MaxPhotos == 4

\* The id of the k-th submitted photo (ids are distinct and differ from positions).
PhotoIdAt(k) == 100 + k

PhotoList(n) == [k \in 1 .. n |-> [id |-> PhotoIdAt(k)]]

\* The side of the checkerboard image.
CheckerSide == 24

\* The luma of the checkerboard at (x, y).
CheckerLuma(x, y) == IF ((x + y) % 2) = 0 THEN 0 ELSE 255

\* Decoded images:
\*   "tiny1"  a single gray pixel,
\*   "flat3"  a 3x3 uniform gray image (no edge pixel),
\*   "edge3"  a 3x3 image with a black left column and white elsewhere,
\*   "color3" a 3x3 image of red and cyan columns,
\*   "dot5"   a 5x5 black image with one white pixel left of the centre,
\*   "flat20" a 20x20 uniform dark image (four complete 8x8 blocks are scanned),
\*   "flat64" a 64x64 uniform image, every pixel (128,128,128),
\*   "flat8", "flat16" 8x8 and 16x16 uniform images of the same gray,
\*   "checker" a checkerboard whose luma alternates between 0 and 255 from
\*            each pixel to the next, horizontally and vertically,
\*   "tiny2", "thin2x5", "thin5x2" uniform images without an interior pixel,
\*   "plus5"  a 5x5 black image with a white centre pixel (its four edge
\*            pixels are the centre's neighbours, none at a thirds point).
Raster(name) ==
  CASE name = "tiny1" -> SolidRaster(1, 1, <<128, 128, 128>>)
    [] name = "tiny2" -> SolidRaster(2, 2, <<128, 128, 128>>)
    [] name = "plus5" -> [w |-> 5, h |-> 5,
                          px |-> [k \in 1 .. 25 |-> IF k = 13 THEN <<255, 255, 255>>
                                                    ELSE <<0, 0, 0>>]]
    [] name = "thin2x5" -> SolidRaster(2, 5, <<128, 128, 128>>)
    [] name = "thin5x2" -> SolidRaster(5, 2, <<128, 128, 128>>)
    [] name = "flat8" -> SolidRaster(8, 8, <<128, 128, 128>>)
    [] name = "flat16" -> SolidRaster(16, 16, <<128, 128, 128>>)
    [] name = "flat64" -> SolidRaster(64, 64, <<128, 128, 128>>)
    [] name = "checker" ->
         [w |-> CheckerSide, h |-> CheckerSide,
          px |-> [k \in 1 .. CheckerSide * CheckerSide |->
                    LET v == CheckerLuma((k - 1) % CheckerSide, (k - 1) \div CheckerSide)
                    IN <<v, v, v>>]]
    [] name = "flat3" -> SolidRaster(3, 3, <<128, 128, 128>>)
    [] name = "dot5" -> [w |-> 5, h |-> 5,
                         px |-> [k \in 1 .. 25 |-> IF k = 12 THEN <<255, 255, 255>>
                                                   ELSE <<0, 0, 0>>]]
    [] name = "flat20" -> SolidRaster(20, 20, <<40, 40, 40>>)
    [] name = "edge3" -> [w |-> 3, h |-> 3,
                          px |-> [k \in 1 .. 9 |-> IF (k - 1) % 3 = 0 THEN <<0, 0, 0>>
                                                   ELSE <<255, 255, 255>>]]
    [] name = "color3" -> [w |-> 3, h |-> 3,
                           px |-> [k \in 1 .. 9 |-> IF (k - 1) % 3 = 2 THEN <<0, 255, 255>>
                                                    ELSE <<255, 0, 0>>]]

\* The images the loader may deliver in a batch.
BatchRasters == {"flat3", "edge3"}

Smile == Expression(9, 0, 0, 0, 0, 0, 1)

\* What awaiting the expression detector may give in a batch.
DetectorOutcomes ==
  {[ok |-> FALSE, faces |-> <<>>],
   [ok |-> TRUE, faces |-> <<>>],
   [ok |-> TRUE, faces |-> <<Smile>>]}

\* ------------------------------------------------------------------------
\* The component state and the position of the running startAnalysis

VARIABLES
  photos,            \* the photos prop as the latest run of startAnalysis read it
  modelsLoaded,      \* useState(false)
  modelLoad,         \* loadModels: "pending", "loaded" or "failed"
  canvasRef,         \* whether canvasRef.current is set
  isAnalyzing,       \* useState(false)
  progress,          \* useState(0)
  results,           \* useState([])
  pc,                \* "idle", or the await startAnalysis is suspended at
  i,                 \* the loop index of startAnalysis
  analysisResults,   \* the local result array of startAnalysis
  img,               \* the image of the current iteration
  technicalQuality,  \* the locals of the current iteration
  aesthetics,
  \* what the run has done so far (observations, read by no action's guard)
  loadsBegun,        \* how many image loads the run has started
  outcomes,          \* per photo accounted for: "ok", "decode" or "analyzer"
  detectorThrew,     \* the ids of the photos whose expression detection threw
  progressUpdates,   \* the values passed to setProgress after a photo
  delivered,         \* the list passed to onAnalysisComplete
  completeCalls,     \* how often onAnalysisComplete was invoked in this run
  analysed,          \* per photo pushed: the image and detector outcome it was scored on
  \* the one scratch canvas behind canvasRef: the image it currently holds
  canvas,
  \* the per-photo pipeline or the fusion applied on its own to chosen inputs
  \* (PipelineSpec, FusionSpec); untouched by the component
  probe,
  \* the page around the component (album-creator.tsx)
  home,              \* the state of Home: selectedPhotos, analysisResults,
                     \* selectedPhotoIds, albumCreated
  album              \* the AlbumCreator: its session, isCreating, where createAlbum
                     \* is suspended, and what its calls have done so far

vars == <<photos, modelsLoaded, modelLoad, canvasRef, isAnalyzing, progress, results,
          pc, i, analysisResults, img, technicalQuality, aesthetics,
          loadsBegun, outcomes, detectorThrew, progressUpdates, delivered,
          completeCalls, analysed, canvas, probe, home, album>>

\* what no step of startAnalysis writes
props == <<photos, canvasRef, probe, album>>
models == <<modelsLoaded, modelLoad>>
locals == <<img, technicalQuality, aesthetics>>

NoImage == "none"
NoTechnical == [blurScore |-> 0, noiseScore |-> 0, exposureScore |-> 0, overallScore |-> 0]
NoAesthetics == [meanScore |-> 0]
NoProbe == [stage |-> "off"]

\* The canvas element before anything was drawn on it.
BlankCanvas == "blank"

\* How many of the ranked photos the page preselects for the album.
TopCount == 10

\* results.slice(0, Math.min(10, results.length)).map(result => result.photoId)
TopPhotoIds(list) == [k \in 1 .. Min2(TopCount, Len(list)) |-> list[k].photoId]

\* handleAnalysisComplete: setAnalysisResults(results), setSelectedPhotoIds(topPhotoIds).
handleAnalysisComplete(h, list) ==
  [h EXCEPT !.analysisResults = list, !.selectedPhotoIds = TopPhotoIds(list)]

\* handlePhotosSelected: the new selection, and everything derived from the
\* previous one reset.
handlePhotosSelected(list) ==
  [selectedPhotos |-> list, analysisResults |-> <<>>, selectedPhotoIds |-> <<>>,
   albumCreated |-> FALSE]

\* The AlbumCreator after mount with the given session: "none" (no session),
\* "noToken" (a session without access token) or "token".  photoIds is the
\* prop as the running createAlbum captured it; log lists what the calls did.
AlbumMounted(session) ==
  [session |-> session, isCreating |-> FALSE, pc |-> "idle", photoIds |-> <<>>,
   calls |-> 0, log |-> <<>>]

\* The component after mount, before loadModels has settled.
ComponentMounted ==
  /\ modelsLoaded = FALSE
  /\ modelLoad = "pending"
  /\ canvasRef = TRUE
  /\ isAnalyzing = FALSE
  /\ progress = 0
  /\ results = <<>>
  /\ pc = "idle"
  /\ i = 0
  /\ analysisResults = <<>>
  /\ img = NoImage
  /\ technicalQuality = NoTechnical
  /\ aesthetics = NoAesthetics
  /\ loadsBegun = 0
  /\ outcomes = <<>>
  /\ detectorThrew = {}
  /\ progressUpdates = <<>>
  /\ delivered = <<>>
  /\ completeCalls = 0
  /\ analysed = {}
  /\ canvas = BlankCanvas

\* The component after mount on the page that handed it the photos.
Mounted ==
  /\ ComponentMounted
  /\ home = handlePhotosSelected(photos)
  /\ album = AlbumMounted("token")

Init ==
  /\ photos \in {PhotoList(n) : n \in 0 .. MaxPhotos}
  /\ Mounted
  /\ probe = NoProbe

\* loadModels: every await resolved, setModelsLoaded(true).
ModelsLoaded ==
  /\ modelLoad = "pending"
  /\ modelLoad' = "loaded"
  /\ modelsLoaded' = TRUE
  /\ UNCHANGED <<props, isAnalyzing, progress, results, pc, i, analysisResults, locals,
                 loadsBegun, outcomes, detectorThrew, progressUpdates, delivered,
                 completeCalls, analysed, canvas, home>>

\* loadModels: an await rejected; the catch block only logs.
ModelsFailed ==
  /\ modelLoad = "pending"
  /\ modelLoad' = "failed"
  /\ UNCHANGED <<modelsLoaded, props, isAnalyzing, progress, results, pc, i,
                 analysisResults, locals, loadsBegun, outcomes, detectorThrew,
                 progressUpdates, delivered, completeCalls, analysed, canvas, home>>

\* ------------------------------------------------------------------------
\* The final sort

\* The comparator (a, b) => b.overallScore - a.overallScore as sort uses it:
\* negative, zero or positive; a NaN result counts as +0.
Compare(a, b) ==
  IF IsNaN(a.overallScore) \/ IsNaN(b.overallScore) THEN 0
  ELSE IF b.overallScore < a.overallScore THEN 0 - 1
  ELSE IF b.overallScore > a.overallScore THEN 1
  ELSE 0

\* Whether the comparator is a consistent comparison function for the elements
\* of list: "compares equal" must be transitive.  With b - a on numbers it is
\* unless some score is NaN (equal to everything) while two others differ.
ConsistentComparator(list) ==
  \A x, y, z \in DOMAIN list :
     (Compare(list[x], list[y]) = 0 /\ Compare(list[y], list[z]) = 0)
        => Compare(list[x], list[z]) = 0

\* The stable sort of list by the comparator.
StableSort(list) ==
  LET n == Len(list)
      Before(j, k) == Compare(list[j], list[k]) < 0
                      \/ (Compare(list[j], list[k]) = 0 /\ j < k)
      Rank(k) == Cardinality({j \in 1 .. n : Before(j, k)})
  IN [r \in 1 .. n |-> list[CHOOSE k \in 1 .. n : Rank(k) = r - 1]]

\* Array.prototype.sort: a stable sort when the comparator is consistent;
\* otherwise the order is implementation-defined, and any arrangement of the
\* elements may come out.
SortOutcomes(list) ==
  IF ConsistentComparator(list) THEN {StableSort(list)}
  ELSE {[r \in 1 .. Len(list) |-> list[perm[r]]] : perm \in Permutations(1 .. Len(list))}

\* ------------------------------------------------------------------------
\* startAnalysis

\* Math.round(((i + 1) / photos.length) * 100) for the 0-based loop index.
ProgressAt(index, total) == (200 * (index + 1) + total) \div (2 * total)

\* After the loop: sort, setResults, setIsAnalyzing(false), and
\* onAnalysisComplete, which is the page's handleAnalysisComplete.
Finish(list) ==
  \E sorted \in SortOutcomes(list) :
     /\ analysisResults' = sorted
     /\ results' = sorted
     /\ isAnalyzing' = FALSE
     /\ delivered' = sorted
     /\ completeCalls' = completeCalls + 1
     /\ home' = handleAnalysisComplete(home, sorted)
     /\ pc' = "idle"
     /\ i' = i + 1
     /\ UNCHANGED loadsBegun

\* The end of one loop iteration with the result array now being list: i++,
\* then either the next iteration up to its await of the image load, or the
\* code after the loop.
NextIteration(list) ==
  /\ img' = NoImage
  /\ technicalQuality' = NoTechnical
  /\ aesthetics' = NoAesthetics
  /\ IF i + 1 < Len(photos)
       THEN /\ i' = i + 1
            /\ pc' = "loading"
            /\ loadsBegun' = loadsBegun + 1
            /\ analysisResults' = list
            /\ UNCHANGED <<results, isAnalyzing, delivered, completeCalls, home>>
       ELSE Finish(list)

\* Faulty variants of the catch block: one that leaves the loop (break), one
\* that lets the exception leave startAnalysis, one that records a zero result
\* for the failed photo.
CatchAborts(reason) ==
  /\ outcomes' = Append(outcomes, reason)
  /\ img' = NoImage
  /\ technicalQuality' = NoTechnical
  /\ aesthetics' = NoAesthetics
  /\ Finish(analysisResults)
  /\ UNCHANGED <<props, models, progress, detectorThrew, progressUpdates, analysed>>

CatchRethrows(reason) ==
  /\ outcomes' = Append(outcomes, reason)
  /\ pc' = "failed"
  /\ UNCHANGED <<props, models, isAnalyzing, progress, results, i, analysisResults,
                 locals, loadsBegun, detectorThrew, progressUpdates, delivered,
                 completeCalls, analysed, home>>

CatchPushesPlaceholder(reason) ==
  /\ outcomes' = Append(outcomes, reason)
  /\ NextIteration(Append(analysisResults,
                          [photoId |-> photos[i + 1].id,
                           technicalQuality |-> NoTechnical,
                           aesthetics |-> NoAesthetics,
                           faceExpressions |-> NoFaces,
                           overallScore |-> 0]))
  /\ UNCHANGED <<props, models, progress, detectorThrew, progressUpdates, analysed>>

\* The catch block of the loop body: log, nothing else.
Catch(reason) ==
  /\ outcomes' = Append(outcomes, reason)
  /\ NextIteration(analysisResults)
  /\ UNCHANGED <<props, models, progress, detectorThrew, progressUpdates, analysed>>

\* A faulty variant of startAnalysis that starts every image load up front.
StartAnalysisPreloads ==
  /\ pc = "idle"
  /\ IF ~modelsLoaded \/ Len(home.selectedPhotos) = 0 \/ ~canvasRef
       THEN UNCHANGED vars
       ELSE /\ isAnalyzing' = TRUE
            /\ progress' = 0
            /\ results' = <<>>
            /\ analysisResults' = <<>>
            /\ i' = 0
            /\ pc' = "loading"
            /\ loadsBegun' = Len(home.selectedPhotos)
            /\ outcomes' = <<>>
            /\ detectorThrew' = {}
            /\ progressUpdates' = <<>>
            /\ delivered' = <<>>
            /\ completeCalls' = 0
            /\ analysed' = {}
            /\ photos' = home.selectedPhotos
            /\ UNCHANGED <<canvasRef, probe, album, home, models, locals, canvas>>

\* A faulty variant of startAnalysis whose guard does not look at modelsLoaded.
StartAnalysisUnguarded ==
  /\ pc = "idle"
  /\ IF Len(home.selectedPhotos) = 0 \/ ~canvasRef
       THEN UNCHANGED vars
       ELSE /\ isAnalyzing' = TRUE
            /\ progress' = 0
            /\ results' = <<>>
            /\ analysisResults' = <<>>
            /\ i' = 0
            /\ pc' = "loading"
            /\ loadsBegun' = 1
            /\ outcomes' = <<>>
            /\ detectorThrew' = {}
            /\ progressUpdates' = <<>>
            /\ delivered' = <<>>
            /\ completeCalls' = 0
            /\ analysed' = {}
            /\ photos' = home.selectedPhotos
            /\ UNCHANGED <<canvasRef, probe, album, home, models, locals, canvas>>

\* A faulty variant of startAnalysis that leaves the progress of the previous
\* run on display.
StartAnalysisKeepsProgress ==
  /\ pc = "idle"
  /\ IF ~modelsLoaded \/ Len(home.selectedPhotos) = 0 \/ ~canvasRef
       THEN UNCHANGED vars
       ELSE /\ isAnalyzing' = TRUE
            /\ results' = <<>>
            /\ analysisResults' = <<>>
            /\ i' = 0
            /\ pc' = "loading"
            /\ loadsBegun' = 1
            /\ outcomes' = <<>>
            /\ detectorThrew' = {}
            /\ progressUpdates' = <<>>
            /\ delivered' = <<>>
            /\ completeCalls' = 0
            /\ analysed' = {}
            /\ photos' = home.selectedPhotos
            /\ UNCHANGED <<progress, canvasRef, probe, album, home, models, locals, canvas>>

\* The start guard and the statements up to the first await.  Only reachable
\* while the button is enabled, so never while a run is suspended.  The
\* closure reads the photos prop of the render the click happened in, which
\* is the page's selection at that time, and keeps it for the whole run.
StartAnalysis ==
  /\ pc = "idle"
  /\ IF ~modelsLoaded \/ Len(home.selectedPhotos) = 0 \/ ~canvasRef
       THEN UNCHANGED vars
       ELSE /\ isAnalyzing' = TRUE
            /\ progress' = 0
            /\ results' = <<>>
            /\ analysisResults' = <<>>
            /\ i' = 0
            /\ pc' = "loading"
            /\ loadsBegun' = 1
            /\ outcomes' = <<>>
            /\ detectorThrew' = {}
            /\ progressUpdates' = <<>>
            /\ delivered' = <<>>
            /\ completeCalls' = 0
            /\ analysed' = {}
            /\ photos' = home.selectedPhotos
            /\ UNCHANGED <<canvasRef, probe, album, home, models, locals, canvas>>

\* img.onload: the awaited promise resolves and analyzeTechnicalQuality is called.
ImageLoaded ==
  /\ pc = "loading"
  /\ \E name \in BatchRasters : img' = name
  /\ pc' = "technical"
  /\ UNCHANGED <<props, models, isAnalyzing, progress, results, i, analysisResults,
                 technicalQuality, aesthetics, loadsBegun, outcomes, detectorThrew,
                 progressUpdates, delivered, completeCalls, analysed, canvas, home>>

\* img.onerror: the awaited promise rejects.
ImageError ==
  /\ pc = "loading"
  /\ Catch("decode")
  /\ UNCHANGED canvas

\* A faulty variant of the drawing below: the canvas is drawn on only while
\* it is blank, so a later photo is read from an earlier photo's pixels.
drawImageOnce(c, image) == IF c = BlankCanvas THEN image ELSE c

\* canvas.width = img.width; canvas.height = img.height; ctx.drawImage(img, 0, 0):
\* assigning the size clears the canvas, which then holds exactly the image.
drawImage(c, image) == image

\* ctx.getImageData(0, 0, canvas.width, canvas.height)
getImageData(c) == Raster(c)

\* A faulty variant of the step below that reads the pixel data before it
\* draws, and so scores what the previous call left on the canvas (on the
\* blank canvas of the first call, the image itself).
TechnicalSettledReadsFirst ==
  /\ pc = "technical"
  /\ \E ok \in BOOLEAN :
        IF ok
          THEN /\ canvas' = drawImage(canvas, img)
               /\ technicalQuality' =
                     analyzeTechnicalQuality(
                        getImageData(IF canvas = BlankCanvas THEN img ELSE canvas))
               /\ pc' = "aesthetics"
               /\ UNCHANGED <<props, models, isAnalyzing, progress, results, i,
                              analysisResults, img, aesthetics, loadsBegun, outcomes,
                              detectorThrew, progressUpdates, delivered, completeCalls,
                              analysed, home>>
          ELSE /\ Catch("analyzer")
               /\ canvas' \in {canvas, drawImage(canvas, img)}

\* await analyzeTechnicalQuality(img): its value, or what it threw (the canvas
\* context may be missing, before the canvas is touched, or getImageData may
\* throw, after the image was drawn), then analyzeAesthetics is called.
TechnicalSettled ==
  /\ pc = "technical"
  /\ \E ok \in BOOLEAN :
        IF ok
          THEN /\ canvas' = drawImage(canvas, img)
               /\ technicalQuality' = analyzeTechnicalQuality(getImageData(canvas'))
               /\ pc' = "aesthetics"
               /\ UNCHANGED <<props, models, isAnalyzing, progress, results, i,
                              analysisResults, img, aesthetics, loadsBegun, outcomes,
                              detectorThrew, progressUpdates, delivered, completeCalls,
                              analysed, home>>
          ELSE /\ Catch("analyzer")
               /\ canvas' \in {canvas, drawImage(canvas, img)}

\* await analyzeAesthetics(img), then analyzeFaceExpressions is called and
\* suspends at the detector.
AestheticsSettled ==
  /\ pc = "aesthetics"
  /\ \E ok \in BOOLEAN :
        IF ok
          THEN /\ canvas' = drawImage(canvas, img)
               /\ aesthetics' = analyzeAesthetics(getImageData(canvas'))
               /\ pc' = "detecting"
               /\ UNCHANGED <<props, models, isAnalyzing, progress, results, i,
                              analysisResults, img, technicalQuality, loadsBegun,
                              outcomes, detectorThrew, progressUpdates, delivered,
                              completeCalls, analysed, home>>
          ELSE /\ Catch("analyzer")
               /\ canvas' \in {canvas, drawImage(canvas, img)}

\* The entry pushed for the current photo.
ResultEntry(faceExpressions) ==
  [photoId |-> photos[i + 1].id,
   technicalQuality |-> technicalQuality,
   aesthetics |-> aesthetics,
   faceExpressions |-> faceExpressions,
   overallScore |-> calculateOverallScore(technicalQuality, aesthetics, faceExpressions)]

\* The detector settles: analyzeFaceExpressions returns, the score is fused, the
\* entry pushed and the progress updated; then the loop goes on.
DetectionSettled ==
  /\ pc = "detecting"
  /\ \E detection \in DetectorOutcomes :
        /\ detectorThrew' = IF detection.ok THEN detectorThrew
                            ELSE detectorThrew \cup {photos[i + 1].id}
        /\ progress' = ProgressAt(i, Len(photos))
        /\ progressUpdates' = Append(progressUpdates, ProgressAt(i, Len(photos)))
        /\ outcomes' = Append(outcomes, "ok")
        /\ analysed' = analysed \cup {[photoId |-> photos[i + 1].id, raster |-> img,
                                        detection |-> detection]}
        /\ NextIteration(Append(analysisResults,
                                ResultEntry(analyzeFaceExpressions(detection))))
  /\ UNCHANGED <<props, models, canvas>>

\* The longest photo list for which a click on the analyze button after a
\* completed run is followed.
MaxRerunPhotos == 1

\* A click on the analyze button: the first after mount, or a later one,
\* which starts from what the earlier run left on the page.
StartRun == (completeCalls = 0 \/ Len(photos) <= MaxRerunPhotos) /\ StartAnalysis

Next ==
  \/ ModelsLoaded
  \/ ModelsFailed
  \/ StartRun
  \/ ImageLoaded
  \/ ImageError
  \/ TechnicalSettled
  \/ AestheticsSettled
  \/ DetectionSettled

Spec == Init /\ [][Next]_vars

\* ------------------------------------------------------------------------
\* The per-photo pipeline (the body of the loop of startAnalysis) on its own

Frown == Expression(0, 6, 2, 1, 1, 0, 0)
Beam == Expression(10, 0, 0, 0, 0, 0, 10)

PipelineRasters == {"tiny1", "flat3", "edge3", "color3", "dot5", "flat20"}

PipelineDetections ==
  DetectorOutcomes \cup {[ok |-> TRUE, faces |-> <<Frown>>],
                         [ok |-> TRUE, faces |-> <<Frown, Smile>>],
                         [ok |-> TRUE, faces |-> <<Beam>>]}

\* The pipeline about to run on an image and a detector outcome.
ProbeOf(raster, detection) ==
  [stage |-> "loaded", raster |-> raster, detection |-> detection,
   technicalQuality |-> NoTechnical, aesthetics |-> NoAesthetics,
   faceExpressions |-> NoFaces, overallScore |-> 0]

PipelineInit ==
  /\ photos = <<>>
  /\ Mounted
  /\ probe \in {ProbeOf(r, d) : r \in PipelineRasters, d \in PipelineDetections}

ProbeUnchanged ==
  UNCHANGED <<photos, canvasRef, models, isAnalyzing, progress, results, pc, i,
              analysisResults, locals, loadsBegun, outcomes, detectorThrew,
              progressUpdates, delivered, completeCalls, analysed, canvas, home, album>>

ProbeTechnical ==
  /\ probe.stage = "loaded"
  /\ probe' = [probe EXCEPT !.stage = "technical",
                            !.technicalQuality = analyzeTechnicalQuality(Raster(probe.raster))]
  /\ ProbeUnchanged

ProbeAesthetics ==
  /\ probe.stage = "technical"
  /\ probe' = [probe EXCEPT !.stage = "aesthetics",
                            !.aesthetics = analyzeAesthetics(Raster(probe.raster))]
  /\ ProbeUnchanged

ProbeExpressions ==
  /\ probe.stage = "aesthetics"
  /\ probe' = [probe EXCEPT !.stage = "expressions",
                            !.faceExpressions = analyzeFaceExpressions(probe.detection)]
  /\ ProbeUnchanged

ProbeFusion ==
  /\ probe.stage = "expressions"
  /\ probe' = [probe EXCEPT !.stage = "scored",
                            !.overallScore =
                               calculateOverallScore(probe.technicalQuality,
                                                     probe.aesthetics,
                                                     probe.faceExpressions)]
  /\ ProbeUnchanged

PipelineNext ==
  \/ ProbeTechnical
  \/ ProbeAesthetics
  \/ ProbeExpressions
  \/ ProbeFusion

PipelineSpec == PipelineInit /\ [][PipelineNext]_vars

\* ------------------------------------------------------------------------
\* calculateOverallScore on its own, on a grid of inputs

\* The grid: scores k / FusionGrid for k = 0 .. FusionGrid.
FusionGrid == 4

\* The largest face count tried.
MaxFaces == 2

UnitGrid == {(k * One) \div FusionGrid : k \in 0 .. FusionGrid}

FusionInit ==
  /\ photos = <<>>
  /\ Mounted
  /\ \E t \in UnitGrid, a \in UnitGrid, b \in UnitGrid, n \in 0 .. MaxFaces :
        probe = [stage |-> "expressions", raster |-> NoImage,
                 detection |-> [ok |-> TRUE, faces |-> <<>>],
                 technicalQuality |-> [blurScore |-> t, noiseScore |-> t,
                                       exposureScore |-> t, overallScore |-> t],
                 aesthetics |-> [meanScore |-> One + 9 * a],
                 faceExpressions |-> [faceCount |-> n, expressions |-> <<>>,
                                      bestExpressionScore |-> b],
                 overallScore |-> 0]

FusionNext == ProbeFusion

FusionSpec == FusionInit /\ [][FusionNext]_vars

\* ------------------------------------------------------------------------
\* analyzeFaceExpressions on its own, on lists of expression vectors

\* The longest list of detected faces tried.
MaxDetected == 2

\* Expression vectors with every component in [0,1]: happy, neutral and
\* surprised at the ends and the middle of the range, with no, slight or full
\* negative expressions.
ExpressionVectors ==
  {Expression(happy, neg[1], neg[2], neg[3], neg[4], surprised, neutral) :
     happy \in {0, 5, 10}, surprised \in {0, 10}, neutral \in {0, 10},
     neg \in {<<0, 0, 0, 0>>, <<5, 0, 0, 2>>, <<10, 10, 10, 10>>}}

RECURSIVE FaceLists(_)
\* The lists of at most n expression vectors.
FaceLists(n) ==
  IF n = 0 THEN {<<>>}
  ELSE LET shorter == FaceLists(n - 1)
       IN shorter \cup {Append(l, e) : l \in {q \in shorter : Len(q) = n - 1},
                                       e \in ExpressionVectors}

ExpressionInit ==
  /\ photos = <<>>
  /\ Mounted
  /\ \E faces \in FaceLists(MaxDetected) :
        probe = [ProbeOf(NoImage, [ok |-> TRUE, faces |-> faces])
                   EXCEPT !.stage = "aesthetics"]

ExpressionNext == ProbeExpressions

ExpressionSpec == ExpressionInit /\ [][ExpressionNext]_vars

\* ------------------------------------------------------------------------
\* The primitive analyzers on their own, each applied once to an image, in
\* any order (they are pure functions of the ImageData)

PrimitiveRasters ==
  {"tiny1", "tiny2", "thin2x5", "thin5x2", "flat3", "flat8", "flat16", "flat64",
   "checker", "dot5", "plus5", "edge3", "flat20"}

\* blocksExamined: how often the loops of detectNoise call
\* calculateBlockVariance; sampled: how many iterations the sampling loop of
\* extractDominantColors makes.
PrimitivesInit ==
  /\ photos = <<>>
  /\ Mounted
  /\ \E r \in PrimitiveRasters :
        probe = [stage |-> "primitives", raster |-> r, measured |-> {},
                 blurScore |-> 0, noiseScore |-> 0, blocksExamined |-> 0,
                 harmonyScore |-> 0, sampled |-> 0,
                 compositionScore |-> 0, balanceScore |-> 0, thirdsScore |-> 0]

Unmeasured(what) == probe.stage = "primitives" /\ what \notin probe.measured

ProbeBlur ==
  /\ Unmeasured("blur")
  /\ probe' = [probe EXCEPT !.measured = @ \cup {"blur"},
                            !.blurScore = detectBlur(Raster(probe.raster))]
  /\ ProbeUnchanged

ProbeNoise ==
  /\ Unmeasured("noise")
  /\ probe' = [probe EXCEPT !.measured = @ \cup {"noise"},
                            !.noiseScore = detectNoise(Raster(probe.raster)),
                            !.blocksExamined =
                               Cardinality(NoiseOrigins(Raster(probe.raster).w, 8)
                                           \X NoiseOrigins(Raster(probe.raster).h, 8))]
  /\ ProbeUnchanged

ProbeHarmony ==
  /\ Unmeasured("harmony")
  /\ probe' = [probe EXCEPT !.measured = @ \cup {"harmony"},
                            !.harmonyScore = analyzeColorHarmony(Raster(probe.raster)),
                            !.sampled = Cardinality(SampledPixels(Raster(probe.raster)))]
  /\ ProbeUnchanged

ProbeComposition ==
  /\ Unmeasured("composition")
  /\ probe' = [probe EXCEPT !.measured = @ \cup {"composition"},
                            !.compositionScore = analyzeComposition(Raster(probe.raster)),
                            !.balanceScore =
                               LET im == Raster(probe.raster)
                               IN calculateVisualBalance(findEdges(im), im.w, im.h),
                            !.thirdsScore =
                               LET im == Raster(probe.raster)
                               IN calculateRuleOfThirdsScore(
                                    findEdges(im), im.w, im.h, im.w \div 3,
                                    (im.w * 2) \div 3, im.h \div 3, (im.h * 2) \div 3)]
  /\ ProbeUnchanged

PrimitivesNext ==
  \/ ProbeBlur
  \/ ProbeNoise
  \/ ProbeHarmony
  \/ ProbeComposition

PrimitivesSpec == PrimitivesInit /\ [][PrimitivesNext]_vars

\* ------------------------------------------------------------------------
\* The dominant-colour extraction and the harmony score on strips of pixels

\* The longest strip of pixels tried.
MaxStrip == 7

\* Six pixel colours in six different quantization buckets; the first is a
\* weakly saturated colour whose hue (60) differs from the hue of its bucket's
\* key (128,128,128).
Palette ==
  <<(<<143, 143, 128>>), (<<0, 0, 0>>), (<<255, 0, 0>>), (<<0, 255, 255>>),
    (<<0, 255, 0>>), (<<10, 20, 200>>)>>

\* The largest element of a sequence of naturals (0 for the empty one).
MaxLabel(labels) ==
  IF labels = <<>> THEN 0
  ELSE LET used == {labels[k] : k \in DOMAIN labels}
       IN CHOOSE m \in used : \A l \in used : l <= m

RECURSIVE Labellings(_)
\* The sequences of exactly n colour labels in which the labels appear in the
\* order 1, 2, 3, ... of their first occurrence.
Labellings(n) ==
  IF n = 0 THEN {<<>>}
  ELSE UNION {{Append(l, c) : c \in 1 .. Min2(MaxLabel(l) + 1, Len(Palette))}
              : l \in Labellings(n - 1)}

\* The strip with these labels, label c standing for the palette colour
\* offset places further on (cyclically).
Strip(labels, offset) ==
  [w |-> Len(labels), h |-> 1,
   px |-> [k \in 1 .. Len(labels) |->
             Palette[((labels[k] - 1 + offset) % Len(Palette)) + 1]]]

StripInit ==
  /\ photos = <<>>
  /\ Mounted
  /\ \E n \in 1 .. MaxStrip :
        \E labels \in Labellings(n), offset \in 0 .. Len(Palette) - 1 :
           probe = [stage |-> "strip", image |-> Strip(labels, offset),
                    colors |-> <<>>, harmonyScore |-> 0]

ProbeDominantColors ==
  /\ probe.stage = "strip"
  /\ probe' = [probe EXCEPT !.stage = "colors",
                            !.colors = extractDominantColors(probe.image, 5)]
  /\ ProbeUnchanged

ProbeStripHarmony ==
  /\ probe.stage = "colors"
  /\ probe' = [probe EXCEPT !.stage = "harmony",
                            !.harmonyScore = analyzeColorHarmony(probe.image)]
  /\ ProbeUnchanged

StripNext ==
  \/ ProbeDominantColors
  \/ ProbeStripHarmony

StripSpec == StripInit /\ [][StripNext]_vars

\* ------------------------------------------------------------------------
\* The harmony score on lists of retained colours given by their hues

\* The longest list of retained colours tried.
MaxColours == 4

\* Hues in degrees, on and around the limits of the three classes.
HueGrid == {0, 20, 30, 120, 180, 195, 350}

RECURSIVE HueLists(_)
\* The lists of at most n colours with hues of the grid.
HueLists(n) ==
  IF n = 0 THEN {<<>>}
  ELSE LET shorter == HueLists(n - 1)
       IN shorter \cup {Append(l, [hue |-> 1000 * h]) :
                          l \in {q \in shorter : Len(q) = n - 1}, h \in HueGrid}

HarmonyInit ==
  /\ photos = <<>>
  /\ Mounted
  /\ \E colors \in HueLists(MaxColours) :
        probe = [stage |-> "hues", colors |-> colors, harmonyScore |-> 0]

ProbeHarmonyOf ==
  /\ probe.stage = "hues"
  /\ probe' = [probe EXCEPT !.stage = "harmonized",
                            !.harmonyScore = HarmonyOf(probe.colors)]
  /\ ProbeUnchanged

HarmonyNext == ProbeHarmonyOf

HarmonySpec == HarmonyInit /\ [][HarmonyNext]_vars

\* The loads and the detector settle, and the continuations of the two
\* analyzer awaits run (the event loop runs every pending continuation).
Fairness ==
  /\ WF_vars(ImageLoaded \/ ImageError)
  /\ WF_vars(TechnicalSettled)
  /\ WF_vars(AestheticsSettled)
  /\ WF_vars(DetectionSettled)

\* The longest photo list of the runs checked for termination.
MaxLivePhotos == 3

LiveInit == Init /\ Len(photos) <= MaxLivePhotos

LiveSpec == LiveInit /\ [][Next]_vars /\ Fairness

\* ------------------------------------------------------------------------
\* analyzeContrast applied on its own to images of up to three gray levels.

\* The most pixels of such an image.
MaxContrastPixels == 22

\* The gray levels, dark to bright.
ContrastLevels == <<10, 100, 240>>

\* A one-row image of dark, then mid, then bright pixels.
Banded(dark, mid, bright) ==
  [w |-> dark + mid + bright, h |-> 1,
   px |-> [k \in 1 .. dark + mid + bright |->
             LET v == IF k <= dark THEN ContrastLevels[1]
                      ELSE IF k <= dark + mid THEN ContrastLevels[2]
                      ELSE ContrastLevels[3]
             IN <<v, v, v>>]]

ContrastInit ==
  /\ photos = <<>>
  /\ Mounted
  /\ \E dark, mid, bright \in 0 .. MaxContrastPixels :
        /\ dark + mid + bright \in 1 .. MaxContrastPixels
        /\ probe = [stage |-> "contrast", image |-> Banded(dark, mid, bright),
                    p5 |-> 0, p95 |-> 0, contrastScore |-> 0]

ProbeContrast ==
  /\ probe.stage = "contrast"
  /\ probe' = [probe EXCEPT !.stage = "contrasted",
                            !.p5 = PercentileLow(probe.image),
                            !.p95 = PercentileHigh(probe.image),
                            !.contrastScore = analyzeContrast(probe.image)]
  /\ ProbeUnchanged

ContrastNext == ProbeContrast

ContrastSpec == ContrastInit /\ [][ContrastNext]_vars

\* ------------------------------------------------------------------------
\* The page (Home) around the component

\* The variables of the PhotoAnalyzer and of its run.
component == <<photos, modelsLoaded, modelLoad, canvasRef, isAnalyzing, progress, results,
               pc, i, analysisResults, img, technicalQuality, aesthetics, loadsBegun,
               outcomes, detectorThrew, progressUpdates, delivered, completeCalls,
               analysed, canvas>>

\* handleAnalysisComplete applied on its own to the lists a run can deliver.

\* The longest delivered list.
MaxRanked == 12

\* The results of n photos before the sort: the scores rise with the input
\* position, and with hole the second photo scored NaN.
Unranked(n, hole) ==
  [k \in 1 .. n |->
     [photoId |-> PhotoIdAt(k),
      technicalQuality |-> NoTechnical,
      aesthetics |-> NoAesthetics,
      faceExpressions |-> NoFaces,
      overallScore |-> IF hole /\ k = 2 THEN NaN ELSE (k * One) \div (MaxRanked + 1)]]

\* list rotated left by r places.
Rotated(list, r) == [k \in 1 .. Len(list) |-> list[((k - 1 + r) % Len(list)) + 1]]

\* list back to front.
Reversed(list) == [k \in 1 .. Len(list) |-> list[Len(list) + 1 - k]]

\* Some of what analysisResults.sort can leave of list: the stable sort, or
\* with an inconsistent comparator, where any arrangement may come out, the
\* rotations of the reversed list.
Deliverable(list) ==
  IF ConsistentComparator(list) THEN {StableSort(list)}
  ELSE {Rotated(Reversed(list), r) : r \in 0 .. Len(list) - 1}

RankedInit ==
  /\ \E n \in 0 .. MaxRanked, hole \in BOOLEAN :
        /\ photos = PhotoList(n)
        /\ probe \in {[stage |-> "ranked", results |-> list] :
                         list \in Deliverable(Unranked(n, hole))}
  /\ Mounted

\* onAnalysisComplete(analysisResults)
ProbeAnalysisComplete ==
  /\ probe.stage = "ranked"
  /\ home' = handleAnalysisComplete(home, probe.results)
  /\ probe' = [probe EXCEPT !.stage = "delivered"]
  /\ UNCHANGED <<component, album>>

RankedNext == ProbeAnalysisComplete

RankedSpec == RankedInit /\ [][RankedNext]_vars

\* The page with the component running on it.

\* The longest photo list picked on the page.
MaxPagePhotos == 2

\* n photos that are not among those of PhotoList.
OtherPhotoList(n) == [k \in 1 .. n |-> [id |-> PhotoIdAt(k) + 100]]

\* What the picker can hand over: one photo or more.
Pickable ==
  {PhotoList(n) : n \in 1 .. MaxPagePhotos} \cup {OtherPhotoList(n) : n \in 1 .. MaxPagePhotos}

\* The ids of the photos of list.
IdsOf(list) == {list[k].id : k \in DOMAIN list}

\* The photos whose result card the page shows: those with a result and
\* still in the selection.
Shown(h) ==
  {h.analysisResults[k].photoId : k \in DOMAIN h.analysisResults} \cap IdsOf(h.selectedPhotos)

\* prev.includes(photoId) ? prev.filter(id => id !== photoId) : [...prev, photoId]
togglePhotoSelection(prev, photoId) ==
  IF \E k \in DOMAIN prev : prev[k] = photoId
    THEN LET Other(id) == id # photoId IN SelectSeq(prev, Other)
    ELSE Append(prev, photoId)

PageInit == Init /\ Len(photos) \in 1 .. MaxPagePhotos

\* The picker calls back with a new selection, at any time: also while a run
\* of startAnalysis is suspended, which keeps the photos it started with.
HandlePhotosSelected ==
  /\ \E list \in Pickable : home' = handlePhotosSelected(list)
  /\ UNCHANGED <<component, probe, album>>

\* A click on a result card.
TogglePhotoSelection ==
  /\ \E photoId \in Shown(home) :
        home' = [home EXCEPT !.selectedPhotoIds = togglePhotoSelection(@, photoId)]
  /\ UNCHANGED <<component, probe, album>>

PageNext ==
  \/ ModelsLoaded
  \/ ModelsFailed
  \/ StartAnalysis
  \/ ImageLoaded
  \/ ImageError
  \/ TechnicalSettled
  \/ AestheticsSettled
  \/ DetectionSettled
  \/ HandlePhotosSelected
  \/ TogglePhotoSelection

PageSpec == PageInit /\ [][PageNext]_vars

\* ------------------------------------------------------------------------
\* The AlbumCreator (album-creator.tsx)

\* The most photos on the page when an album is created, and the most calls
\* of createAlbum followed.
MaxAlbumPhotos == 2
MaxAlbumCalls == 2

\* The page after the analysis of n photos has delivered its ranking.
Analysed(n) ==
  handleAnalysisComplete(handlePhotosSelected(PhotoList(n)),
                         StableSort(Unranked(n, FALSE)))

AlbumInit ==
  /\ \E n \in 0 .. MaxAlbumPhotos :
        /\ photos = PhotoList(n)
        /\ home = Analysed(n)
  /\ album \in {AlbumMounted(session) : session \in {"none", "noToken", "token"}}
  /\ ComponentMounted
  /\ probe = NoProbe

\* The catch and finally blocks of createAlbum: log, setIsCreating(false).
AlbumFailed(a, event) ==
  [a EXCEPT !.isCreating = FALSE, !.pc = "idle", !.log = Append(@, event)]

\* createAlbum is called: the guard, setIsCreating(true), and the first
\* request is issued.  Never called while an earlier call is suspended (the
\* button is disabled while isCreating).
CreateAlbum ==
  /\ album.pc = "idle"
  /\ album.calls < MaxAlbumCalls
  /\ IF album.session # "token" \/ Len(home.selectedPhotoIds) = 0
       THEN album' = [album EXCEPT !.calls = @ + 1, !.log = Append(@, "returned")]
       ELSE album' = [album EXCEPT !.calls = @ + 1,
                                   !.isCreating = TRUE,
                                   !.pc = "creating",
                                   !.photoIds = home.selectedPhotoIds,
                                   !.log = Append(@, "create")]
  /\ UNCHANGED <<component, probe, home>>

\* A faulty variant of the step below that does not look at response.ok.
CreateSettledIgnoresStatus ==
  /\ album.pc = "creating"
  /\ \E response \in {"createOk", "createNotOk", "createRejected"} :
        album' = IF response # "createRejected"
                   THEN [album EXCEPT !.pc = "parsing", !.log = Append(@, response)]
                   ELSE AlbumFailed(album, response)
  /\ UNCHANGED <<component, probe, home>>

\* The album-creation request settles: fetch resolves with ok or not ok, or
\* rejects; anything but ok ends in the catch block.
CreateSettled ==
  /\ album.pc = "creating"
  /\ \E response \in {"createOk", "createNotOk", "createRejected"} :
        album' = IF response = "createOk"
                   THEN [album EXCEPT !.pc = "parsing", !.log = Append(@, response)]
                   ELSE AlbumFailed(album, response)
  /\ UNCHANGED <<component, probe, home>>

\* createResponse.json() settles; with the album id the add-photos request
\* is issued.
JsonSettled ==
  /\ album.pc = "parsing"
  /\ \E parsed \in BOOLEAN :
        album' = IF parsed
                   THEN [album EXCEPT !.pc = "adding", !.log = Append(@, "add")]
                   ELSE AlbumFailed(album, "jsonRejected")
  /\ UNCHANGED <<component, probe, home>>

\* The add-photos request settles; on ok onAlbumCreated is called, which is
\* the page's handleAlbumCreated: setAlbumCreated(true).
AddSettled ==
  /\ album.pc = "adding"
  /\ \E response \in {"addOk", "addNotOk", "addRejected"} :
        IF response = "addOk"
          THEN /\ album' = AlbumFailed([album EXCEPT !.log = Append(@, response)],
                                       "notified")
               /\ home' = [home EXCEPT !.albumCreated = TRUE]
          ELSE /\ album' = AlbumFailed(album, response)
               /\ UNCHANGED home
  /\ UNCHANGED <<component, probe>>

AlbumNext ==
  \/ CreateAlbum
  \/ CreateSettled
  \/ JsonSettled
  \/ AddSettled

AlbumSpec == AlbumInit /\ [][AlbumNext]_vars

\* ------------------------------------------------------------------------
\* Properties of the batch run

Range(seq) == {seq[k] : k \in DOMAIN seq}

\* A run has started and has delivered its list.
Completed == pc = "idle" /\ completeCalls = 1

\* The positions of list that hold an entry for photo id.
EntriesFor(list, id) == {j \in DOMAIN list : list[j].photoId = id}

\* The input position of the photo with this id.
InputPosition(id) == CHOOSE k \in DOMAIN photos : photos[k].id = id

\* C1: the list delivered to onAnalysisComplete is ordered by descending
\* overallScore: result[k].overallScore >= result[k+1].overallScore for every
\* adjacent pair, whatever the photos, load failures and pixel content.
C1_RankedDescending ==
  Completed =>
    \A k \in 1 .. Len(delivered) - 1 :
       Geq(delivered[k].overallScore, delivered[k + 1].overallScore)

\* C2: when image loading or an analyzer throws for some photos, the batch
\* is not aborted, and the delivered list holds exactly one entry for every
\* other photo and none for a photo that failed.
C2_SkipSemantics ==
  Completed =>
    /\ Len(outcomes) = Len(photos)
    /\ \A k \in DOMAIN photos :
          Cardinality(EntriesFor(delivered, photos[k].id))
            = IF outcomes[k] = "ok" THEN 1 ELSE 0
    /\ Len(delivered) = Cardinality({k \in DOMAIN outcomes : outcomes[k] = "ok"})

\* A completed run of at least three photos in which a load failed, an
\* analyzer threw and a photo was analysed.
C2_Witness ==
  /\ Completed
  /\ Len(photos) >= 3
  /\ {"decode", "analyzer", "ok"} \subseteq Range(outcomes)
  /\ Len(delivered) < Len(photos)

\* C3: a progress update is emitted after every photo, analysed or skipped:
\* N updates for N photos, the k-th carrying round(100 * k / N), the last
\* one (and the final progress) being 100.
C3_ProgressAfterEveryPhoto ==
  Completed =>
    /\ Len(progressUpdates) = Len(photos)
    /\ \A k \in DOMAIN progressUpdates :
          progressUpdates[k] = (200 * k + Len(photos)) \div (2 * Len(photos))
    /\ progress = 100

\* C4: a run that has passed the start guard finishes, whatever photos fail:
\* isAnalyzing returns to false and onAnalysisComplete is invoked exactly
\* once, after all photos have been accounted for; no other terminal state.
C4_RunCompletes ==
  /\ [](completeCalls <= 1)
  /\ [](pc # "idle" => (isAnalyzing /\ completeCalls = 0))
  /\ [](completeCalls = 1 => (~isAnalyzing /\ Len(outcomes) = Len(photos)))
  /\ ((pc # "idle") ~> (Completed /\ ~isAnalyzing))

\* A completed run in which every photo failed.
C4_Witness ==
  /\ Completed
  /\ ~isAnalyzing
  /\ Len(photos) >= 2
  /\ Range(outcomes) = {"decode"}

\* C5: two results of the delivered list with equal overallScore stand in the
\* relative order of their photos in the input list.
C5_TiesKeepInputOrder ==
  Completed =>
    \A j, k \in DOMAIN delivered :
       (/\ j < k
        /\ ~IsNaN(delivered[j].overallScore)
        /\ delivered[j].overallScore = delivered[k].overallScore)
         => InputPosition(delivered[j].photoId) < InputPosition(delivered[k].photoId)

\* C6: photos are processed one at a time in input order: a load begins only
\* when every earlier photo has been appended or skipped, so at most one photo
\* of the run is in flight.
C6_Sequential ==
  /\ loadsBegun <= Len(outcomes) + 1
  /\ pc # "idle" => (loadsBegun = i + 1 /\ Len(outcomes) = i)
  /\ \A j, k \in DOMAIN analysisResults :
        (pc # "idle" /\ j < k)
          => InputPosition(analysisResults[j].photoId)
               < InputPosition(analysisResults[k].photoId)

\* The third load is pending after one photo was appended and one skipped.
C6_Witness ==
  /\ pc = "loading"
  /\ i = 2
  /\ loadsBegun = 3
  /\ Len(analysisResults) = 1

\* C7: when the expression detector throws for a photo, the photo gets
\* faceCount 0, no expressions and bestExpressionScore 0, is scored through
\* the no-face branch and is part of the delivered list.
C7_DetectorFailureAbsorbed ==
  Completed =>
    \A id \in detectorThrew :
       /\ Cardinality(EntriesFor(delivered, id)) = 1
       /\ \A j \in EntriesFor(delivered, id) :
             LET e == delivered[j]
             IN /\ e.faceExpressions.faceCount = 0
                /\ e.faceExpressions.expressions = <<>>
                /\ e.faceExpressions.bestExpressionScore = 0
                /\ e.overallScore
                     = Plus(Times(e.technicalQuality.overallScore, 2, 10),
                            Times(e.aesthetics.meanScore, 2, 100))

\* A delivered list holding a photo whose detection threw, with a defined score.
C7_Witness ==
  /\ Completed
  /\ \E j \in DOMAIN delivered :
        /\ delivered[j].photoId \in detectorThrew
        /\ ~IsNaN(delivered[j].overallScore)
        /\ delivered[j].overallScore > 0

\* C8 as stated: a photo whose expression detection threw is, like a photo
\* whose image failed to load, skipped and left out of the delivered list.
C8_DetectionErrorSkipsPhoto ==
  Completed =>
    /\ Len(outcomes) = Len(photos)
    /\ \A k \in DOMAIN photos :
          (outcomes[k] = "decode" \/ photos[k].id \in detectorThrew)
            => EntriesFor(delivered, photos[k].id) = {}

\* C8: a failed image load is caught at the per-photo boundary and that photo
\* alone is left out of the delivered list; a throwing expression detector does
\* not reach that boundary, and its photo stays in the list; neither aborts
\* the batch.
C8_OnlyDecodeErrorSkipsPhoto ==
  Completed =>
    /\ Len(outcomes) = Len(photos)
    /\ \A k \in DOMAIN photos :
          /\ outcomes[k] = "decode" => EntriesFor(delivered, photos[k].id) = {}
          /\ photos[k].id \in detectorThrew => EntriesFor(delivered, photos[k].id) # {}

\* A completed run with a failed load before a photo whose detection threw.
C8_Witness ==
  /\ Completed
  /\ \E j, k \in DOMAIN photos :
        /\ j < k
        /\ outcomes[j] = "decode"
        /\ photos[k].id \in detectorThrew

\* ------------------------------------------------------------------------
\* Properties of the scoring functions

\* C9: calculateOverallScore is T*0.4 + (A/10)*0.4 + F*0.2 when there is a
\* face, and (T*0.4)*0.5 + ((A/10)*0.4)*0.5 when there is none (the two
\* weighted terms halved, not renormalized to 0.5 / 0.5), whatever
\* bestExpressionScore is in that branch.
\* (T, A, F: technical overallScore, aesthetic meanScore, bestExpressionScore.)
C9_FusionFormula ==
  probe.stage = "scored" =>
    LET t == probe.technicalQuality.overallScore
        a == probe.aesthetics.meanScore
        b == probe.faceExpressions.bestExpressionScore
        o == probe.overallScore
    IN (~IsNaN(t) /\ ~IsNaN(a)) =>
         IF probe.faceExpressions.faceCount > 0
           THEN 100 * o = 40 * t + 4 * a + 20 * b
           ELSE 100 * o = 20 * t + 2 * a

\* The fusion has run without a face on a positive technical score and a
\* positive bestExpressionScore.
C9_Witness ==
  /\ probe.stage = "scored"
  /\ probe.faceExpressions.faceCount = 0
  /\ probe.faceExpressions.bestExpressionScore > 0
  /\ probe.technicalQuality.overallScore > 0
  /\ probe.overallScore > 0

InUnit(x) == ~IsNaN(x) /\ 0 <= x /\ x <= One

\* C10: for every raster of at least 1x1 pixels and every detector output,
\* blurScore, noiseScore, exposureScore, the technical overallScore,
\* bestExpressionScore and the fused overallScore are numbers in [0,1] and
\* meanScore is a number in [1,10]; no analyzer emits NaN.
C10_ScoresInRange ==
  probe.stage = "scored" =>
    /\ InUnit(probe.technicalQuality.blurScore)
    /\ InUnit(probe.technicalQuality.noiseScore)
    /\ InUnit(probe.technicalQuality.exposureScore)
    /\ InUnit(probe.technicalQuality.overallScore)
    /\ InUnit(probe.faceExpressions.bestExpressionScore)
    /\ InUnit(probe.overallScore)
    /\ ~IsNaN(probe.aesthetics.meanScore)
    /\ One <= probe.aesthetics.meanScore
    /\ probe.aesthetics.meanScore <= 10 * One

\* ------------------------------------------------------------------------
\* Determinism of the per-photo pipeline

\* The entry of list for the photo an element of analysed is about.
EntryOf(list, a) == list[CHOOSE j \in DOMAIN list : list[j].photoId = a.photoId]

\* The results stored in an entry of the result list.
ResultsOf(e) ==
  [technicalQuality |-> e.technicalQuality, aesthetics |-> e.aesthetics,
   faceExpressions |-> e.faceExpressions, overallScore |-> e.overallScore]

\* What getImageData gives for an image drawn on a fresh canvas.
FreshImageData(image) == getImageData(drawImage(BlankCanvas, image))

\* C11: the pipeline is deterministic: what each pixel analyzer returns for
\* the current photo is what it returns for that image on a fresh canvas, and
\* two photos of a run with the identical image and the identical detector
\* outcome get identical technical, aesthetic and expression results and the
\* identical overallScore, whichever photos were drawn on the shared scratch
\* canvas before them.
C11_Deterministic ==
  /\ pc = "aesthetics" => technicalQuality = analyzeTechnicalQuality(FreshImageData(img))
  /\ pc = "detecting" => aesthetics = analyzeAesthetics(FreshImageData(img))
  /\ \A a, b \in analysed :
        (/\ a.raster = b.raster
         /\ a.detection = b.detection
         /\ EntriesFor(analysisResults, a.photoId) # {}
         /\ EntriesFor(analysisResults, b.photoId) # {})
          => ResultsOf(EntryOf(analysisResults, a)) = ResultsOf(EntryOf(analysisResults, b))

\* A completed run in which the first photo and a later photo had the same
\* image and detector outcome, with a different image analysed in between.
C11_Witness ==
  /\ Completed
  /\ \E a, b, c \in analysed :
        /\ InputPosition(a.photoId) = 1
        /\ InputPosition(a.photoId) < InputPosition(c.photoId)
        /\ InputPosition(c.photoId) < InputPosition(b.photoId)
        /\ a.raster = b.raster
        /\ a.detection = b.detection
        /\ c.raster # a.raster
        /\ canvas = b.raster

\* ------------------------------------------------------------------------
\* Properties of the expression scorer

\* Ten times the weighted total of one face:
\* 1.0*happy + 0.7*neutral + 0.5*surprised - 0.1*(sad + angry + fearful + disgusted).
WeightedTotal10(e) ==
  10 * e.happy + 7 * e.neutral + 5 * e.surprised
    - (e.sad + e.angry + e.fearful + e.disgusted)

\* C12: for detected expression vectors with components in [0,1]: with no
\* face, faceCount = 0 and bestExpressionScore = 0; otherwise faceCount is the
\* number of faces and bestExpressionScore is the largest weighted total over
\* the faces, clamped to [0,1].
C12_BestExpressionScore ==
  (probe.stage = "expressions" /\ probe.detection.ok) =>
    LET faces == probe.detection.faces
        totals == {WeightedTotal10(faces[k]) : k \in DOMAIN faces}
        best == CHOOSE m \in totals : \A t \in totals : t <= m
        result == probe.faceExpressions
    IN IF faces = <<>>
         THEN result.faceCount = 0 /\ result.bestExpressionScore = 0
         ELSE /\ result.faceCount = Len(faces)
              /\ 10 * result.bestExpressionScore = Min2(10 * One, Max2(0, best))

\* Two faces were scored: the first with a negative total, the second, which
\* sets the score, with a total strictly between 0 and 1.
C12_Witness ==
  /\ probe.stage = "expressions"
  /\ probe.detection.ok
  /\ Len(probe.detection.faces) = 2
  /\ WeightedTotal10(probe.detection.faces[1]) < 0
  /\ WeightedTotal10(probe.detection.faces[2]) > 0
  /\ WeightedTotal10(probe.detection.faces[2]) < 10 * One
  /\ 10 * probe.faceExpressions.bestExpressionScore
       = WeightedTotal10(probe.detection.faces[2])

\* ------------------------------------------------------------------------
\* Properties of the primitive analyzers

Measured(what, raster) ==
  probe.stage = "primitives" /\ probe.raster = raster /\ what \in probe.measured

\* C13: the uniform gray 64x64 image, every pixel (128,128,128), yields
\* blurScore = 0, noiseScore = 1 and harmonyScore = 0.
C13_FlatGray ==
  /\ Measured("blur", "flat64") => probe.blurScore = 0
  /\ Measured("noise", "flat64") => probe.noiseScore = One
  /\ Measured("harmony", "flat64") => probe.harmonyScore = 0

\* The three scores of the flat 64x64 image have been computed, the noise
\* score from uniform blocks.
C13_Witness ==
  /\ Measured("blur", "flat64")
  /\ Measured("noise", "flat64")
  /\ Measured("harmony", "flat64")
  /\ Raster("flat64").w = 64
  /\ Raster("flat64").h = 64
  /\ \A k \in DOMAIN Raster("flat64").px : Raster("flat64").px[k] = <<128, 128, 128>>
  /\ probe.blocksExamined > 0

\* C14 as stated: the black-and-white checkerboard yields a blurScore near 1
\* and a noiseScore near 0 (each within 0.1).
C14_CheckerboardNoisy ==
  /\ Measured("blur", "checker") => Geq(probe.blurScore, (9 * One) \div 10)
  /\ Measured("noise", "checker") => Geq(One \div 10, probe.noiseScore)

\* C14: the black-and-white checkerboard yields blurScore = 1 (the Laplacian
\* variance is clamped), and, no 8x8 block of it being uniform, the neutral
\* noiseScore 0.5.
C14_CheckerboardNeutralNoise ==
  /\ Measured("blur", "checker") => probe.blurScore = One
  /\ Measured("noise", "checker") => probe.noiseScore = One \div 2

\* Blur and noise of the checkerboard have been computed, the noise from
\* several examined blocks; neighbouring pixels alternate between 0 and 255.
C14_Witness ==
  /\ Measured("blur", "checker")
  /\ Measured("noise", "checker")
  /\ probe.blocksExamined >= 4
  /\ LET im == Raster("checker")
     IN \A k \in 0 .. PixelCount(im) - 2 :
           ((k + 1) % im.w) # 0 =>
              {Gray(im)[k], Gray(im)[k + 1]} = {0, 255}

\* C15: for an image without an interior pixel (width < 3 or height < 3)
\* detectBlur returns its zero default, blurScore = 0, not NaN, and
\* detectNoise returns its neutral default 0.5.
C15_SmallImageDefaults ==
  (probe.stage = "primitives"
   /\ (Raster(probe.raster).w < 3 \/ Raster(probe.raster).h < 3)) =>
    /\ "blur" \in probe.measured => probe.blurScore = 0
    /\ "noise" \in probe.measured => probe.noiseScore = One \div 2

\* C16: an image with no edge pixel (zero edges on both sides of both axes)
\* has balanceScore = 1 and, with the neutral thirds score 0.5,
\* compositionScore = 0.6 * 0.5 + 0.4 * 1 = 0.7.
C16_EdgeFreeBalance ==
  (probe.stage = "primitives"
   /\ "composition" \in probe.measured
   /\ findEdges(Raster(probe.raster)) = {}) =>
    /\ probe.balanceScore = One
    /\ probe.compositionScore = (7 * One) \div 10

\* C17: the sampling loop of the dominant-colour extraction visits at most
\* 1000 pixels, whatever the size of the image.
C17_AtMost1000Sampled ==
  (probe.stage = "primitives" /\ "harmony" \in probe.measured) =>
    probe.sampled <= 1000

\* C18: detectNoise examines every complete 8x8 block of the image:
\* floor(width / 8) * floor(height / 8) blocks, the last row and column of
\* blocks included (one block for an 8x8 image).
C18_AllCompleteBlocks ==
  (probe.stage = "primitives" /\ "noise" \in probe.measured) =>
    probe.blocksExamined
      = (Raster(probe.raster).w \div 8) * (Raster(probe.raster).h \div 8)

\* ------------------------------------------------------------------------
\* Properties of the dominant-colour extraction

\* The quantized key of a returned colour.
KeyOf(color) == <<color.r, color.g, color.b>>

\* The sampled pixel indices of the probed strip whose quantized colour is key.
SampledWith(key) ==
  {j \in SampledPixels(probe.image) : Quantize(probe.image.px[j + 1]) = key}

\* The first sampled pixel index with this key.
FirstSeen(key) == CHOOSE j \in SampledWith(key) : \A k \in SampledWith(key) : j <= k

\* The HSV conversion of the quantized triple of a returned colour.
QuantizedHsv(color) ==
  LET hsv == rgbToHsv(color.r, color.g, color.b)
  IN [hue |-> hsv.h, sat |-> hsv.s, val |-> hsv.v]

\* C19: the hue, saturation and value stored with each retained dominant
\* colour are the HSV conversion of its quantized (r,g,b) triple, so the
\* harmonyScore is the one computed from the hues of the quantized triples
\* (and is the same for images with the same buckets and counts).
C19_HsvOfQuantizedColour ==
  /\ probe.stage \in {"colors", "harmony"} =>
        \A k \in DOMAIN probe.colors :
           LET c == probe.colors[k]
           IN [hue |-> c.hue, sat |-> c.sat, val |-> c.val] = QuantizedHsv(c)
  /\ probe.stage = "harmony" =>
        probe.harmonyScore
          = HarmonyOf([k \in DOMAIN probe.colors |-> QuantizedHsv(probe.colors[k])])

\* C20: extractDominantColors returns at most 5 colours, each a sampled
\* quantized colour with its number of occurrences, with distinct keys, in
\* non-increasing order of count, colours of equal count in the order in
\* which their keys were first sampled; no omitted colour has a strictly
\* higher count than a returned one.
C20_TopFiveByCount ==
  probe.stage \in {"colors", "harmony"} =>
    LET cs == probe.colors
        keys == {Quantize(probe.image.px[j + 1]) : j \in SampledPixels(probe.image)}
        returned == {KeyOf(cs[k]) : k \in DOMAIN cs}
    IN /\ Len(cs) <= 5
       /\ Len(cs) = Min2(5, Cardinality(keys))
       /\ Cardinality(returned) = Len(cs)
       /\ returned \subseteq keys
       /\ \A k \in DOMAIN cs : cs[k].count = Cardinality(SampledWith(KeyOf(cs[k])))
       /\ \A k \in 1 .. Len(cs) - 1 :
             \/ cs[k].count > cs[k + 1].count
             \/ /\ cs[k].count = cs[k + 1].count
                /\ FirstSeen(KeyOf(cs[k])) < FirstSeen(KeyOf(cs[k + 1]))
       /\ \A key \in keys \ returned :
             \A k \in DOMAIN cs : Cardinality(SampledWith(key)) <= cs[k].count

\* Six colours were sampled and five returned: the most frequent one was
\* not the first one seen, two returned colours tie, and the omitted colour
\* ties with the last returned one.
C20_Witness ==
  /\ probe.stage = "colors"
  /\ Len(probe.colors) = 5
  /\ Cardinality({Quantize(probe.image.px[j + 1]) : j \in SampledPixels(probe.image)}) = 6
  /\ probe.colors[1].count > probe.colors[2].count
  /\ FirstSeen(KeyOf(probe.colors[1])) > 0
  /\ probe.colors[4].count = probe.colors[5].count
  /\ \E j \in SampledPixels(probe.image) :
        /\ \A k \in DOMAIN probe.colors :
              Quantize(probe.image.px[j + 1]) # KeyOf(probe.colors[k])
        /\ Cardinality(SampledWith(Quantize(probe.image.px[j + 1]))) = probe.colors[5].count

\* ------------------------------------------------------------------------
\* Properties of the harmony score

\* The minimal circular difference of two hues (in thousandths of a degree).
CircularDiff(h1, h2) == Min2(Abs(h1 - h2), 360000 - Abs(h1 - h2))

\* The unordered pairs of positions of list whose hue difference lies
\* strictly between lo and hi.
PairsBetween(list, lo, hi) ==
  {pair \in SUBSET DOMAIN list :
     /\ Cardinality(pair) = 2
     /\ \E j, k \in pair :
           /\ j < k
           /\ CircularDiff(list[j].hue, list[k].hue) > lo
           /\ CircularDiff(list[j].hue, list[k].hue) < hi}

\* C21: the harmony score counts every unordered pair of retained colours
\* once, as complementary (165 < d < 195, weight 0.3), analogous (d < 30,
\* weight 0.2), triadic (105 < d < 135, weight 0.2) or nothing, d being the
\* minimal circular hue difference, and is the sum of the weights divided by
\* the number of colours, clamped to [0,1]; it is 0 for fewer than 2 colours.
\* (Scores are compared to the thousandth.)
C21_HarmonyFormula ==
  probe.stage = "harmonized" =>
    LET colors == probe.colors
        n == Len(colors)
        complementary == Cardinality(PairsBetween(colors, 165000, 195000))
        analogous == Cardinality(PairsBetween(colors, 0 - 1, 30000))
        triadic == Cardinality(PairsBetween(colors, 105000, 135000))
        weights1000 == 300 * complementary + 200 * analogous + 200 * triadic
    IN IF n < 2 THEN probe.harmonyScore = 0
       ELSE probe.harmonyScore = Min2(One, Max2(0, (weights1000 \div n) * Milli))

\* Four colours were scored whose pairs include a complementary, an
\* analogous (across the 0/360 seam) and a triadic one and one of no class.
C21_Witness ==
  /\ probe.stage = "harmonized"
  /\ Len(probe.colors) = 4
  /\ PairsBetween(probe.colors, 165000, 195000) # {}
  /\ PairsBetween(probe.colors, 105000, 135000) # {}
  /\ \E j, k \in DOMAIN probe.colors :
        Abs(probe.colors[j].hue - probe.colors[k].hue) = 350000
  /\ \E j, k \in DOMAIN probe.colors :
        CircularDiff(probe.colors[j].hue, probe.colors[k].hue) = 60000
  /\ probe.harmonyScore > 0
  /\ probe.harmonyScore < One

\* ------------------------------------------------------------------------
\* Properties of the composition and contrast scores

\* C22: the rule-of-thirds score is 0.5 when the edge map has no edge pixel,
\* and for every image size, min(width, height) < 10 included, it is a
\* defined number in [0,1].
C22_ThirdsDefined ==
  (probe.stage = "primitives" /\ "composition" \in probe.measured) =>
    /\ findEdges(Raster(probe.raster)) = {} => probe.thirdsScore = One \div 2
    /\ InUnit(probe.thirdsScore)

\* ------------------------------------------------------------------------
\* The page

\* The entries of list the page selected, and those it left out.
SelectedOf(list) == {k \in DOMAIN list : k <= TopCount}
LeftOutOf(list) == {k \in DOMAIN list : k > TopCount}

\* C23: when an analysis completes, selectedPhotoIds is exactly the photoIds
\* of the first min(10, n) entries of the delivered list, in that order, and
\* these are the top photos by overallScore: no photo left out has a higher
\* score than a selected one.
C23_TopTenSelected ==
  probe.stage = "delivered" =>
    LET list == probe.results
        m == IF Len(list) < 10 THEN Len(list) ELSE 10
    IN /\ home.analysisResults = list
       /\ Len(home.selectedPhotoIds) = m
       /\ \A k \in 1 .. m : home.selectedPhotoIds[k] = list[k].photoId
       /\ \A s \in SelectedOf(list), u \in LeftOutOf(list) :
             (~IsNaN(list[s].overallScore) /\ ~IsNaN(list[u].overallScore))
                => list[u].overallScore <= list[s].overallScore

\* C23, the part that holds: the selection is the first min(10, n) photoIds
\* of the delivered list, whatever its order.
C23_FirstTenOfDelivered ==
  probe.stage = "delivered" =>
    LET list == probe.results
        m == IF Len(list) < 10 THEN Len(list) ELSE 10
    IN /\ Len(home.selectedPhotoIds) = m
       /\ \A k \in 1 .. m : home.selectedPhotoIds[k] = list[k].photoId

\* ------------------------------------------------------------------------
\* The album creator

\* The positions of event in the log of the album creator.
Logged(event) == {k \in DOMAIN album.log : album.log[k] = event}

\* C24: createAlbum issues no request without an access token or without
\* photo ids; the parent is notified only right after both requests of that
\* call succeeded; and isCreating is false whenever no call is in progress.
C24_CreateAlbumProtocol ==
  /\ (album.session # "token" \/ Len(home.selectedPhotoIds) = 0)
        => (Logged("create") = {} /\ Logged("add") = {} /\ ~album.isCreating)
  /\ \A k \in Logged("notified") :
        /\ k >= 5
        /\ SubSeq(album.log, k - 4, k - 1) = <<"create", "createOk", "add", "addOk">>
  /\ home.albumCreated <=> Logged("notified") # {}
  /\ \A k \in Logged("addOk") : k < Len(album.log) /\ album.log[k + 1] = "notified"
  /\ album.pc = "idle" => ~album.isCreating
  /\ album.isCreating <=> album.pc # "idle"

\* A second call of createAlbum has failed at the add-photos request after
\* the first call succeeded.
C24_Witness ==
  /\ album.calls = 2
  /\ album.pc = "idle"
  /\ Logged("notified") # {}
  /\ Logged("addNotOk") # {}
  /\ home.albumCreated

\* ------------------------------------------------------------------------
\* The scratch canvas

\* C25: the canvas changes only in a step of analyzeTechnicalQuality or
\* analyzeAesthetics, which leaves on it the image passed to that call, and
\* the result such a step stores is the analysis of that image's pixels,
\* whatever the canvas held before and whatever else has run since.
C25_CanvasStepAtomic ==
  [][/\ canvas' # canvas => (pc \in {"technical", "aesthetics"} /\ canvas' = img)
     /\ (pc = "technical" /\ pc' = "aesthetics")
          => /\ canvas' = img
             /\ technicalQuality' = analyzeTechnicalQuality(Raster(img))
     /\ (pc = "aesthetics" /\ pc' = "detecting")
          => /\ canvas' = img
             /\ aesthetics' = analyzeAesthetics(Raster(img))]_vars

\* The second analyzer of a photo has run on a canvas that held another
\* photo's image before this photo was drawn.
C25_Witness ==
  /\ pc = "detecting"
  /\ i >= 1
  /\ canvas = img
  /\ \E a \in analysed : a.raster # img
  /\ aesthetics = analyzeAesthetics(Raster(img))

\* ------------------------------------------------------------------------
\* The page and the run

\* C26: at every moment the album selection holds only ids of photos of the
\* current photo selection, also when a new set is picked while the analysis
\* of the previous set is running and that analysis delivers later.
C26_SelectionWithinPhotos ==
  \A k \in DOMAIN home.selectedPhotoIds :
     home.selectedPhotoIds[k] \in IdsOf(home.selectedPhotos)

\* ------------------------------------------------------------------------
\* The progress display

\* The 1-based input position of the last photo analysed successfully, 0 if
\* there is none.
LastAnalysed ==
  LET ok == {k \in DOMAIN outcomes : outcomes[k] = "ok"}
  IN IF ok = {} THEN 0 ELSE CHOOSE k \in ok : \A j \in ok : j <= k

\* C27: from the start of a run on, the progress shown is 0 until the first
\* update and the latest update afterwards, every value lies in 0..100, the
\* values never decrease, and when the run has completed the progress is
\* round(100 * k / N) for the position k of the last photo analysed
\* successfully among the N submitted (0 if none was).
C27_ProgressMonotone ==
  (pc # "idle" \/ completeCalls = 1) =>
    /\ progress \in 0 .. 100
    /\ progress = IF progressUpdates = <<>> THEN 0
                  ELSE progressUpdates[Len(progressUpdates)]
    /\ \A k \in DOMAIN progressUpdates :
          /\ progressUpdates[k] \in 0 .. 100
          /\ k > 1 => progressUpdates[k - 1] <= progressUpdates[k]
    /\ Completed =>
          progress = (200 * LastAnalysed + Len(photos)) \div (2 * Len(photos))

\* A run of three photos has completed with the third skipped: the progress
\* stays at round(200 / 3) = 67.
C27_Witness ==
  /\ Completed
  /\ Len(photos) = 3
  /\ outcomes = <<"ok", "ok", "decode">>
  /\ progressUpdates = <<33, 67>>
  /\ progress = 67

\* ------------------------------------------------------------------------
\* The start guard

\* Whether the guard of startAnalysis lets a run start.
MayStart == modelsLoaded /\ Len(home.selectedPhotos) > 0 /\ canvasRef

\* C28: while the models are not loaded, the photo list is empty or the
\* canvas is missing, no step, a click on the button included, changes
\* isAnalyzing, progress or results, invokes onAnalysisComplete or leaves the
\* idle state; and once model loading has failed it stays failed, modelsLoaded
\* stays false and no run ever starts.
C28_GuardedStart ==
  /\ [][(pc = "idle" /\ ~MayStart)
          => /\ pc' = "idle"
             /\ isAnalyzing' = isAnalyzing
             /\ progress' = progress
             /\ results' = results
             /\ completeCalls' = completeCalls
             /\ delivered' = delivered]_vars
  /\ [][modelLoad = "failed" => (modelLoad' = "failed" /\ ~modelsLoaded')]_vars
  /\ [](modelLoad = "failed"
          => (~modelsLoaded /\ pc = "idle" /\ ~isAnalyzing /\ loadsBegun = 0
              /\ results = <<>> /\ completeCalls = 0))

\* Model loading has failed with photos waiting for analysis.
C28_Witness ==
  /\ modelLoad = "failed"
  /\ Len(photos) = MaxPhotos
  /\ canvasRef
  /\ ~MayStart
  /\ pc = "idle"

\* ------------------------------------------------------------------------
\* Contrast

\* The gray levels that occur in im.
LevelsOf(im) == {Luma(im.px[k]) : k \in DOMAIN im.px}

\* C29: for every non-empty image p5 <= p95, so that contrastScore, which is
\* min(1, (p95 - p5) / 200), lies in [0, 1]; an image of a single gray level
\* has p5 = p95 and contrastScore 0.
C29_PercentilesOrdered ==
  probe.stage = "contrasted" =>
    /\ probe.p5 <= probe.p95
    /\ probe.p5 \in LevelsOf(probe.image)
    /\ probe.p95 \in LevelsOf(probe.image)
    /\ probe.contrastScore =
          IF probe.p95 - probe.p5 >= 200 THEN One
          ELSE ((probe.p95 - probe.p5) * One) \div 200
    /\ InUnit(probe.contrastScore)
    /\ Cardinality(LevelsOf(probe.image)) = 1
          => (probe.p5 = probe.p95 /\ probe.contrastScore = 0)

\* The darkest pixels are fewer than 5% and skipped by the dark-end scan,
\* which stops below the bright-end scan.
C29_Witness ==
  /\ probe.stage = "contrasted"
  /\ \E v \in LevelsOf(probe.image) : v < probe.p5
  /\ probe.p5 < probe.p95
  /\ 0 < probe.contrastScore
  /\ probe.contrastScore < One

\* ------------------------------------------------------------------------
\* Order properties of the fusion

\* The fused score of technical score t, mean aesthetic score a, best
\* expression score b and n faces.
Fused(t, a, b, n) ==
  calculateOverallScore([overallScore |-> t], [meanScore |-> a],
                        [faceCount |-> n, bestExpressionScore |-> b])

\* C30: for a technical score in [0, 1], a mean score in [1, 10] and a best
\* expression score in [0, 1], raising any one input does not lower the fused
\* score, a photo without faces scores at most 0.4, and a photo with a face
\* scores at least twice what it would score without.
C30_FusionOrder ==
  probe.stage = "scored" =>
    LET t == probe.technicalQuality.overallScore
        a == probe.aesthetics.meanScore
        b == probe.faceExpressions.bestExpressionScore
        n == probe.faceExpressions.faceCount
        o == probe.overallScore
    IN /\ o = Fused(t, a, b, n)
       /\ \A t2 \in UnitGrid : t2 >= t => Fused(t2, a, b, n) >= o
       /\ \A g \in UnitGrid : One + 9 * g >= a => Fused(t, One + 9 * g, b, n) >= o
       /\ \A b2 \in UnitGrid : b2 >= b => Fused(t, a, b2, n) >= o
       /\ \A n2 \in 0 .. MaxFaces : n2 >= n => Fused(t, a, b, n2) >= o
       /\ n = 0 => 10 * o <= 4 * One
       /\ n > 0 => o >= 2 * Fused(t, a, b, 0)

\* A photo with a face and the worst expression score has been fused: it
\* scores exactly twice its no-face score.
C30_Witness ==
  /\ probe.stage = "scored"
  /\ probe.faceExpressions.faceCount > 0
  /\ probe.faceExpressions.bestExpressionScore = 0
  /\ probe.technicalQuality.overallScore > 0
  /\ probe.technicalQuality.overallScore < One
  /\ probe.overallScore = 2 * Fused(probe.technicalQuality.overallScore,
                                    probe.aesthetics.meanScore, 0, 0)


====
